---- MODULE Spec2Model ----
(***************************************************************************)
(* A model of gosw (github.com/kechako/gosw): the version identifiers of   *)
(* package env (parser, stringifier, comparator), the release catalog      *)
(* built from the remote listing or from its cache file, the queries on    *)
(* the catalog, and the install root of package goenv with its registry    *)
(* of installed versions and its version link.                             *)
(*                                                                         *)
(* A text is a sequence of one-character strings, so that the regular      *)
(* expression, strings.TrimPrefix, strconv.Atoi and fmt.Sprintf("%d") are  *)
(* modelled by what they do to the characters.                             *)
(*                                                                         *)
(* Package env has two revisions of version.go in the tree.  The one the   *)
(* test table of Test_ParseVersion passes against lets a patch AND a       *)
(* beta/rc suffix follow the minor (ParseVersion below); the other allows  *)
(* a patch OR a suffix (ParseVersionStrict below).  String, CompareVersion,*)
(* EqualVersion and compareInt are the same in both.                       *)
(***************************************************************************)
EXTENDS Integers, Sequences, FiniteSets, TLC

VARIABLES
    text,       \* SpecParse: the argument s handed to ParseVersion
    typed,      \* SpecParse: how many pieces were appended to the seed text
    parsed,     \* SpecParse: what ParseVersion(text) returned, <<>> before the call
    reparsed,   \* SpecParse: what ParseVersion(v.String()) returned, <<>> before the call
    text2,      \* SpecEqual: the second text (text is the first)
    equal,      \* SpecEqual: <<EqualVersion(x, y), x.String() == y.String()>>, <<>> before
    vx, vy, vz, \* SpecCompare: three Version values
    cmp,        \* SpecCompare: the results of the CompareVersion calls, <<>> before
    goos,       \* Spec: runtime.GOOS
    goarch,     \* Spec: runtime.GOARCH
    remote,     \* Spec: the listing the server answers with
    cacheFile,  \* Spec: content of downloads.json, <<>> when absent
    releases,   \* Spec: env.releases, <<>> when nil
    lastOp,     \* Spec: the last Env call and its outcome
    requests,   \* Spec: the URLs the program has sent a GET request to
    answer,     \* SpecRecent: the argument and the value of the last query;
                \* SpecInstall: the argument and the steps of the last call
    dirs,       \* SpecInstall: the go* directories of the install root
    installedVersions, \* SpecInstall: env.installedVersions
    link,       \* SpecInstall: the version link, <<>> when there is none
    archives,   \* SpecInstall: the files of the cache directory
    cacheDir,   \* SpecInstall: whether the directory env.cacheDir exists
    pc,         \* SpecMain: where the main goroutine is, <<>> outside SpecMain
    ctxDone,    \* SpecMain: whether the context of signal.NotifyContext is done
    exitCode    \* SpecMain: <<the exit code>> once the process has exited

vars == <<text, typed, parsed, reparsed, text2, equal, vx, vy, vz, cmp,
          goos, goarch, remote, cacheFile, releases, lastOp, requests, answer,
          dirs, installedVersions, link, archives, cacheDir,
          pc, ctxDone, exitCode>>

parseVars == <<text, typed, parsed, reparsed, text2, equal>>
compareVars == <<vx, vy, vz, cmp>>
envVars == <<goos, goarch, remote, cacheFile, releases, lastOp, requests, answer>>
goenvVars == <<dirs, installedVersions, link, archives, cacheDir>>
mainVars == <<pc, ctxDone, exitCode>>

----------------------------------------------------------------------------
(* Characters and numbers                                                  *)

Digits == <<"0", "1", "2", "3", "4", "5", "6", "7", "8", "9">>

IsDigit(c) == \E i \in 1..Len(Digits) : Digits[i] = c

DigitVal(c) == (CHOOSE i \in 1..Len(Digits) : Digits[i] = c) - 1

\* strings.HasPrefix(s[i:], w), positions counted from 1
HasAt(s, i, w) ==
    /\ i >= 1
    /\ i + Len(w) - 1 <= Len(s)
    /\ SubSeq(s, i, i + Len(w) - 1) = w

\* the length of the longest run of [0-9] that starts at position i of s
RECURSIVE DigitRun(_, _)
DigitRun(s, i) ==
    IF i >= 1 /\ i <= Len(s) /\ IsDigit(s[i]) THEN 1 + DigitRun(s, i + 1) ELSE 0

\* the decimal value of a run of digits (leading zeros allowed)
RECURSIVE DecVal(_)
DecVal(ds) ==
    IF ds = <<>> THEN 0
    ELSE 10 * DecVal(SubSeq(ds, 1, Len(ds) - 1)) + DigitVal(ds[Len(ds)])

\* strconv.Atoi on the text of a regexp group: the value, or an error when
\* the text is not a run of digits.  The texts of the model are shorter than
\* the ten digits at which a 32-bit int overflows.
Atoi(ds) ==
    IF ds # <<>> /\ \A i \in 1..Len(ds) : IsDigit(ds[i])
    THEN [n |-> DecVal(ds), err |-> FALSE]
    ELSE [n |-> 0, err |-> TRUE]

\* fmt.Sprintf("%d", n) for n >= 0
RECURSIVE Itoa(_)
Itoa(n) ==
    IF n < 10 THEN <<Digits[n + 1]>>
    ELSE Itoa(n \div 10) \o <<Digits[(n % 10) + 1]>>

\* strings.TrimPrefix(s, p)
TrimPrefix(s, p) ==
    IF HasAt(s, 1, p) THEN SubSeq(s, Len(p) + 1, Len(s)) ELSE s

----------------------------------------------------------------------------
(* Version: type, parser, stringifier, comparator                          *)

Stable == 0
Beta == 1
RC == 2
\* the constant Head of the source (Head is the Sequences operator here)
TypeHead == 3

VersionTypes == {Stable, Beta, RC, TypeHead}

\* the struct literal Version{Type: t, Major: ..., ...}
Version(t, major, minor, patch, release) ==
    [Type |-> t, Major |-> major, Minor |-> minor, Patch |-> patch, Release |-> release]

\* what ParseVersion returns: a *Version (<<>> is nil, <<v>> points at v) and an error
Ok(v) == [v |-> <<v>>, err |-> "nil"]
ErrVersionSyntax == [v |-> <<>>, err |-> "ErrVersionSyntax"]

headVersion == <<"g", "o", "-", "h", "e", "a", "d">>

goPrefix == <<"g", "o">>
betaWord == <<"b", "e", "t", "a">>
rcWord == <<"r", "c">>

\* the word (beta|rc) found at position i of s, <<>> when there is none
SuffixWordAt(s, i) ==
    IF HasAt(s, i, betaWord) THEN betaWord
    ELSE IF HasAt(s, i, rcWord) THEN rcWord
    ELSE <<>>

\* versionRegexp.FindStringSubmatch(s) of the revision that allows a patch or a suffix, for
\*   ^(1)\.([0-9]+)((\.([0-9]+))|((beta|rc)([0-9]+)))?$
\* <<>> (nil) when s does not match, else the 9 submatches.
versionRegexpStrict(s) ==
    LET nMinor == DigitRun(s, 3)
        iOpt == 3 + nMinor
        nPatch == IF HasAt(s, iOpt, <<".">>) THEN DigitRun(s, iOpt + 1) ELSE 0
        hasPatch == nPatch > 0
        word == SuffixWordAt(s, iOpt)
        nRel == IF word # <<>> THEN DigitRun(s, iOpt + Len(word)) ELSE 0
        hasSuffix == ~hasPatch /\ nRel > 0
        iEnd == IF hasPatch THEN iOpt + 1 + nPatch
                ELSE IF hasSuffix THEN iOpt + Len(word) + nRel
                ELSE iOpt
    IN  IF /\ HasAt(s, 1, <<"1", ".">>)
           /\ nMinor > 0
           /\ iEnd = Len(s) + 1
        THEN << s,
                <<"1">>,
                SubSeq(s, 3, 2 + nMinor),
                SubSeq(s, iOpt, iEnd - 1),
                IF hasPatch THEN SubSeq(s, iOpt, iEnd - 1) ELSE <<>>,
                IF hasPatch THEN SubSeq(s, iOpt + 1, iEnd - 1) ELSE <<>>,
                IF hasSuffix THEN SubSeq(s, iOpt, iEnd - 1) ELSE <<>>,
                IF hasSuffix THEN word ELSE <<>>,
                IF hasSuffix THEN SubSeq(s, iOpt + Len(word), iEnd - 1) ELSE <<>> >>
        ELSE <<>>

\* ParseVersion of the revision with versionRegexpStrict
ParseVersionStrict(s) ==
    IF s = headVersion THEN Ok(Version(TypeHead, 0, 0, 0, 0))
    ELSE
    LET t == TrimPrefix(s, goPrefix)
        matches == versionRegexpStrict(t)
    IN  IF matches = <<>> THEN ErrVersionSyntax
        ELSE
        LET major == Atoi(matches[2])
            minor == Atoi(matches[3])
            p == Atoi(matches[6])
            r == Atoi(matches[9])
        IN  IF major.err THEN ErrVersionSyntax
            ELSE IF minor.err THEN ErrVersionSyntax
            ELSE IF matches[4] = <<>>
                 THEN Ok(Version(Stable, major.n, minor.n, 0, 0))
            ELSE IF matches[6] # <<>>
                 THEN IF p.err THEN ErrVersionSyntax
                      ELSE Ok(Version(Stable, major.n, minor.n, p.n, 0))
            ELSE IF r.err THEN ErrVersionSyntax
                 ELSE Ok(Version(IF matches[8] = betaWord THEN Beta ELSE RC,
                                 major.n, minor.n, 0, r.n))

\* versionRegexp without the closing $: a match may stop before the end of the text
versionRegexpUnanchored(s) ==
    LET nMinor == DigitRun(s, 3)
        iPatch == 3 + nMinor
        nPatch == IF HasAt(s, iPatch, <<".">>) THEN DigitRun(s, iPatch + 1) ELSE 0
        hasPatch == nPatch > 0
        iSuffix == IF hasPatch THEN iPatch + 1 + nPatch ELSE iPatch
        word == SuffixWordAt(s, iSuffix)
        nRel == IF word # <<>> THEN DigitRun(s, iSuffix + Len(word)) ELSE 0
        hasSuffix == nRel > 0
        iEnd == IF hasSuffix THEN iSuffix + Len(word) + nRel ELSE iSuffix
    IN  IF /\ HasAt(s, 1, <<"1", ".">>)
           /\ nMinor > 0
        THEN << SubSeq(s, 1, iEnd - 1),
                <<"1">>,
                SubSeq(s, 3, 2 + nMinor),
                IF hasPatch THEN SubSeq(s, iPatch, iPatch + nPatch) ELSE <<>>,
                IF hasPatch THEN SubSeq(s, iPatch + 1, iPatch + nPatch) ELSE <<>>,
                IF hasSuffix THEN SubSeq(s, iSuffix, iEnd - 1) ELSE <<>>,
                IF hasSuffix THEN word ELSE <<>>,
                IF hasSuffix THEN SubSeq(s, iSuffix + Len(word), iEnd - 1) ELSE <<>> >>
        ELSE <<>>

\* versionRegexp.FindStringSubmatch(s) of the revision that allows a patch and a suffix, for
\*   ^(1)\.([0-9]+)(\.([0-9]+))?((beta|rc)([0-9]+))?$
\* <<>> (nil) when s does not match, else the 8 submatches (1-based here:
\* element k+1 is Go's matches[k]); a group that took no part is the empty text.
\* Every digit run is followed by a non-digit or the end of the text, so the
\* longest run is the only one that can match.
versionRegexp(s) ==
    LET nMinor == DigitRun(s, 3)
        iPatch == 3 + nMinor
        nPatch == IF HasAt(s, iPatch, <<".">>) THEN DigitRun(s, iPatch + 1) ELSE 0
        hasPatch == nPatch > 0
        iSuffix == IF hasPatch THEN iPatch + 1 + nPatch ELSE iPatch
        word == SuffixWordAt(s, iSuffix)
        nRel == IF word # <<>> THEN DigitRun(s, iSuffix + Len(word)) ELSE 0
        hasSuffix == nRel > 0
        iEnd == IF hasSuffix THEN iSuffix + Len(word) + nRel ELSE iSuffix
    IN  IF /\ HasAt(s, 1, <<"1", ".">>)
           /\ nMinor > 0
           /\ iEnd = Len(s) + 1
        THEN << s,
                <<"1">>,
                SubSeq(s, 3, 2 + nMinor),
                IF hasPatch THEN SubSeq(s, iPatch, iPatch + nPatch) ELSE <<>>,
                IF hasPatch THEN SubSeq(s, iPatch + 1, iPatch + nPatch) ELSE <<>>,
                IF hasSuffix THEN SubSeq(s, iSuffix, iEnd - 1) ELSE <<>>,
                IF hasSuffix THEN word ELSE <<>>,
                IF hasSuffix THEN SubSeq(s, iSuffix + Len(word), iEnd - 1) ELSE <<>> >>
        ELSE <<>>

\* ParseVersion with the regular expression that allows a patch or a suffix, not both
ParseVersionPatchOrSuffix(s) == ParseVersionStrict(s)

\* ParseVersion of the revision with versionRegexp above
ParseVersion(s) ==
    IF s = headVersion THEN Ok(Version(TypeHead, 0, 0, 0, 0))
    ELSE
    LET t == TrimPrefix(s, goPrefix)
        matches == versionRegexp(t)
    IN  IF Len(matches) # 8 THEN ErrVersionSyntax
        ELSE
        LET major == Atoi(matches[2])
            minor == Atoi(matches[3])
            p == Atoi(matches[5])
            patch == IF matches[5] # <<>> THEN p.n ELSE 0
            r == Atoi(matches[8])
        IN  IF major.err THEN ErrVersionSyntax
            ELSE IF minor.err THEN ErrVersionSyntax
            ELSE IF matches[5] # <<>> /\ p.err THEN ErrVersionSyntax
            ELSE IF matches[7] = <<>> /\ matches[8] = <<>>
                 THEN Ok(Version(Stable, major.n, minor.n, patch, 0))
            ELSE IF matches[7] # <<>> /\ matches[8] # <<>>
                 THEN IF matches[7] # betaWord /\ matches[7] # rcWord THEN ErrVersionSyntax
                      ELSE IF r.err THEN ErrVersionSyntax
                      ELSE Ok(Version(IF matches[7] = betaWord THEN Beta ELSE RC,
                                      major.n, minor.n, patch, r.n))
            ELSE ErrVersionSyntax

\* String that leaves the patch of a Stable version out
StringNoPatch(v) ==
    IF v.Type = Stable
    THEN Itoa(v.Major) \o <<".">> \o Itoa(v.Minor)
    ELSE IF v.Type = Beta
    THEN Itoa(v.Major) \o <<".">> \o Itoa(v.Minor) \o betaWord \o Itoa(v.Release)
    ELSE IF v.Type = RC
    THEN Itoa(v.Major) \o <<".">> \o Itoa(v.Minor) \o rcWord \o Itoa(v.Release)
    ELSE IF v.Type = TypeHead
    THEN headVersion
    ELSE <<>>

\* (*Version).String
String(v) ==
    IF v.Type = Stable
    THEN IF v.Patch > 0
         THEN Itoa(v.Major) \o <<".">> \o Itoa(v.Minor) \o <<".">> \o Itoa(v.Patch)
         ELSE Itoa(v.Major) \o <<".">> \o Itoa(v.Minor)
    ELSE IF v.Type = Beta
    THEN Itoa(v.Major) \o <<".">> \o Itoa(v.Minor) \o betaWord \o Itoa(v.Release)
    ELSE IF v.Type = RC
    THEN Itoa(v.Major) \o <<".">> \o Itoa(v.Minor) \o rcWord \o Itoa(v.Release)
    ELSE IF v.Type = TypeHead
    THEN headVersion
    ELSE <<>>

compareInt(x, y) ==
    IF x > y THEN 1 ELSE IF x < y THEN -1 ELSE 0

\* CompareVersion without its last test: an RC compared with a Beta of the same
\* line falls through to the release numbers
CompareVersionNoRank(x, y) ==
    IF x.Type = TypeHead /\ y.Type = TypeHead THEN 0
    ELSE IF x.Type = TypeHead THEN 1
    ELSE IF y.Type = TypeHead THEN -1
    ELSE IF x.Major # y.Major THEN compareInt(x.Major, y.Major)
    ELSE IF x.Minor # y.Minor THEN compareInt(x.Minor, y.Minor)
    ELSE IF x.Type # y.Type /\ x.Type = Stable THEN 1
    ELSE IF x.Type # y.Type /\ x.Type = Beta THEN -1
    ELSE IF x.Type # y.Type /\ y.Type = Stable THEN -1
    ELSE IF x.Type = Stable THEN compareInt(x.Patch, y.Patch)
    ELSE compareInt(x.Release, y.Release)

\* CompareVersion that tests y for Head before x
CompareVersionHeadSwapped(x, y) ==
    IF y.Type = TypeHead THEN -1
    ELSE IF x.Type = TypeHead THEN 1
    ELSE IF x.Major # y.Major THEN compareInt(x.Major, y.Major)
    ELSE IF x.Minor # y.Minor THEN compareInt(x.Minor, y.Minor)
    ELSE IF x.Type # y.Type /\ x.Type = Stable THEN 1
    ELSE IF x.Type # y.Type /\ x.Type = Beta THEN -1
    ELSE IF x.Type # y.Type /\ y.Type = Stable THEN -1
    ELSE IF x.Type # y.Type /\ y.Type = Beta THEN 1
    ELSE IF x.Type = Stable THEN compareInt(x.Patch, y.Patch)
    ELSE compareInt(x.Release, y.Release)

\* CompareVersion that orders every kind by the patch number
CompareVersionPatchOnly(x, y) ==
    IF x.Type = TypeHead /\ y.Type = TypeHead THEN 0
    ELSE IF x.Type = TypeHead THEN 1
    ELSE IF y.Type = TypeHead THEN -1
    ELSE IF x.Major # y.Major THEN compareInt(x.Major, y.Major)
    ELSE IF x.Minor # y.Minor THEN compareInt(x.Minor, y.Minor)
    ELSE IF x.Type # y.Type /\ x.Type = Stable THEN 1
    ELSE IF x.Type # y.Type /\ x.Type = Beta THEN -1
    ELSE IF x.Type # y.Type /\ y.Type = Stable THEN -1
    ELSE IF x.Type # y.Type /\ y.Type = Beta THEN 1
    ELSE compareInt(x.Patch, y.Patch)

CompareVersion(x, y) ==
    IF x.Type = TypeHead /\ y.Type = TypeHead THEN 0
    ELSE IF x.Type = TypeHead THEN 1
    ELSE IF y.Type = TypeHead THEN -1
    ELSE IF x.Major # y.Major THEN compareInt(x.Major, y.Major)
    ELSE IF x.Minor # y.Minor THEN compareInt(x.Minor, y.Minor)
    ELSE IF x.Type # y.Type /\ x.Type = Stable THEN 1
    ELSE IF x.Type # y.Type /\ x.Type = Beta THEN -1
    ELSE IF x.Type # y.Type /\ y.Type = Stable THEN -1
    ELSE IF x.Type # y.Type /\ y.Type = Beta THEN 1
    ELSE IF x.Type = Stable THEN compareInt(x.Patch, y.Patch)
    ELSE compareInt(x.Release, y.Release)

EqualVersion(x, y) == CompareVersion(x, y) = 0

----------------------------------------------------------------------------
(* The texts ParseVersion is called with                                   *)

\* versionTests: the table of Test_ParseVersion, each s without its "go"
\* prefix (ParseVersion is also called with texts that never had one)
bodyHead == <<"-", "h", "e", "a", "d">>
body1_16 == <<"1", ".", "1", "6">>
body1_15_10 == <<"1", ".", "1", "5", ".", "1", "0">>
body1_16beta3 == <<"1", ".", "1", "6">> \o betaWord \o <<"3">>
body1_15rc10 == <<"1", ".", "1", "5">> \o rcWord \o <<"1", "0">>
body1_14_1beta4 == <<"1", ".", "1", "4", ".", "1">> \o betaWord \o <<"4">>
body1_13_14rc15 == <<"1", ".", "1", "3", ".", "1", "4">> \o rcWord \o <<"1", "5">>

bodyDashDashHead == <<"-", "-", "h", "e", "a", "d">>
body1_16dot == <<"1", ".", "1", "6", ".">>
body1_15_10dot == <<"1", ".", "1", "5", ".", "1", "0", ".">>
body1_16beta == <<"1", ".", "1", "6">> \o betaWord
body1_15xxx10 == <<"1", ".", "1", "5", "x", "x", "x", "1", "0">>
body1_15dotdot10 == <<"1", ".", "1", "5", ".", ".", "1", "0">>
body1_2_3_4 == <<"1", ".", "2", ".", "3", ".", "4">>
body10 == <<"1", "0">>

\* the rows of versionTests with err: nil, as <<s, v>>
versionTestsOk ==
    { <<goPrefix \o bodyHead, Version(TypeHead, 0, 0, 0, 0)>>,
      <<goPrefix \o body1_16, Version(Stable, 1, 16, 0, 0)>>,
      <<goPrefix \o body1_15_10, Version(Stable, 1, 15, 10, 0)>>,
      <<goPrefix \o body1_16beta3, Version(Beta, 1, 16, 0, 3)>>,
      <<goPrefix \o body1_15rc10, Version(RC, 1, 15, 0, 10)>>,
      <<goPrefix \o body1_14_1beta4, Version(Beta, 1, 14, 1, 4)>>,
      <<goPrefix \o body1_13_14rc15, Version(RC, 1, 13, 14, 15)>> }

\* the s of the rows of versionTests with err: ErrVersionSyntax
versionTestsErr ==
    { goPrefix \o bodyDashDashHead, goPrefix \o body1_16dot,
      goPrefix \o body1_15_10dot, goPrefix \o body1_16beta,
      goPrefix \o body1_15xxx10, goPrefix \o body1_15dotdot10,
      goPrefix \o body1_2_3_4, goPrefix \o body10 }

TableTexts == {row[1] : row \in versionTestsOk} \cup versionTestsErr

\* the texts a call starts from: the table, the same texts without "go", the empty text
SeedTexts ==
    TableTexts \cup {TrimPrefix(t, goPrefix) : t \in TableTexts} \cup {<<>>}

\* what is appended to a seed text, one piece at a time
Pieces ==
    { goPrefix, <<"1">>, <<"0">>, <<".">>, <<"-">>, <<"x">>, betaWord, rcWord }

\* how many pieces are appended at most
MaxTyped == 4

----------------------------------------------------------------------------
(* SpecParse: ParseVersion and String applied to a text                    *)

IdleCompare == vx = <<>> /\ vy = <<>> /\ vz = <<>> /\ cmp = <<>>

IdleEnv ==
    /\ goos = <<>> /\ goarch = <<>> /\ remote = <<>>
    /\ cacheFile = <<>> /\ releases = <<>> /\ lastOp = <<>>
    /\ requests = <<>> /\ answer = <<>>

IdleGoenv ==
    /\ dirs = <<>> /\ installedVersions = <<>> /\ link = <<>> /\ archives = <<>>
    /\ cacheDir = FALSE

IdleMain ==
    /\ pc = <<>> /\ ctxDone = FALSE /\ exitCode = <<>>

InitParse ==
    /\ text \in SeedTexts
    /\ typed = 0
    /\ parsed = <<>>
    /\ reparsed = <<>>
    /\ text2 = <<>>
    /\ equal = <<>>
    /\ IdleCompare
    /\ IdleEnv
    /\ IdleGoenv
    /\ IdleMain

\* the caller extends the text it is about to hand over
Type(piece) ==
    /\ parsed = <<>>
    /\ typed < MaxTyped
    /\ text' = text \o piece
    /\ typed' = typed + 1
    /\ UNCHANGED <<parsed, reparsed, text2, equal, compareVars, envVars, goenvVars, mainVars>>

\* v, err := ParseVersion(text)
CallParseVersion ==
    /\ parsed = <<>>
    /\ parsed' = <<ParseVersion(text)>>
    /\ UNCHANGED <<text, typed, reparsed, text2, equal, compareVars, envVars, goenvVars, mainVars>>

\* ParseVersion(v.String()) for the v just returned
CallParseString ==
    /\ parsed # <<>>
    /\ parsed[1].err = "nil"
    /\ reparsed = <<>>
    /\ reparsed' = <<ParseVersion(String(parsed[1].v[1]))>>
    /\ UNCHANGED <<text, typed, parsed, text2, equal, compareVars, envVars, goenvVars, mainVars>>

NextParse ==
    \/ \E piece \in Pieces : Type(piece)
    \/ CallParseVersion
    \/ CallParseString

SpecParse == InitParse /\ [][NextParse]_vars

----------------------------------------------------------------------------
(* Claims about ParseVersion and String, under SpecParse                   *)

\* C1: for every Version v that ParseVersion returns, ParseVersion(v.String())
\* succeeds and returns a Version equal to v in every field.
C1_RoundTrip ==
    reparsed # <<>> => reparsed[1] = parsed[1]

\* the texts the claim C2 calls malformed, by what the text looks like
EndsWith(s, w) == HasAt(s, Len(s) - Len(w) + 1, w)
Contains(s, w) == \E i \in 1..Len(s) : HasAt(s, i, w)
CountOf(s, c) == Cardinality({i \in 1..Len(s) : s[i] = c})

Malformed(s) ==
    \/ EndsWith(s, <<".">>)                          \* "1.16.", "1.15.10."
    \/ EndsWith(s, betaWord) \/ EndsWith(s, rcWord)  \* "1.16beta"
    \/ Contains(s, <<"x">>)                          \* "1.15xxx10"
    \/ Contains(s, <<".", ".">>)                     \* "1.15..10"
    \/ CountOf(s, ".") > 2                           \* "1.2.3.4"
    \/ ~HasAt(TrimPrefix(s, goPrefix), 1, <<"1", ".">>) /\ s # headVersion   \* "10"
    \/ Contains(s, <<"-">>) /\ s # headVersion       \* "-head", "go--head"

\* C2: ParseVersion returns ErrVersionSyntax and a nil Version for every
\* malformed text (trailing dot, suffix without number, unknown suffix word,
\* double dot, extra segment, major that is not "1.", malformed head
\* sentinel), with or without the leading "go"; both revisions reject them.
C2_MalformedRejected ==
    (parsed # <<>> /\ Malformed(text)) =>
        /\ parsed[1] = ErrVersionSyntax
        /\ ParseVersionStrict(text) = ErrVersionSyntax

\* a malformed text of each row of the table has been rejected
C2_Witness ==
    /\ parsed # <<>>
    /\ text \in versionTestsErr \cup {bodyHead, body1_16dot, body1_16beta}
    /\ parsed[1] = ErrVersionSyntax

----------------------------------------------------------------------------
(* SpecCompare: CompareVersion applied to three Version values             *)

\* the greatest Major, and the greatest Minor, Patch and Release, of the
\* Version values compared
MaxMajor == 2
MaxNum == 1

\* Version values as the program holds them: Head carries no numbers, a
\* Stable version no release number; a Beta or RC version may carry a patch
BoundedVersions ==
    {Version(TypeHead, 0, 0, 0, 0)}
    \cup {Version(Stable, ma, mi, p, 0) :
            ma \in 1..MaxMajor, mi \in 0..MaxNum, p \in 0..MaxNum}
    \cup {Version(t, ma, mi, p, r) :
            t \in {Beta, RC}, ma \in 1..MaxMajor, mi \in 0..MaxNum,
            p \in 0..MaxNum, r \in 0..MaxNum}

v1_16 == Version(Stable, 1, 16, 0, 0)
v1_16rc1 == Version(RC, 1, 16, 0, 1)
v1_16beta1 == Version(Beta, 1, 16, 0, 1)
v1_15_10 == Version(Stable, 1, 15, 10, 0)
v1_15_9 == Version(Stable, 1, 15, 9, 0)
v1_14_99 == Version(Stable, 1, 14, 99, 0)

ExampleVersions == {v1_16, v1_16rc1, v1_16beta1, v1_15_10, v1_15_9, v1_14_99}

CompareVersions == BoundedVersions \cup ExampleVersions

IdleParse ==
    /\ text = <<>> /\ typed = 0 /\ parsed = <<>> /\ reparsed = <<>>
    /\ text2 = <<>> /\ equal = <<>>

InitCompare ==
    /\ vx \in CompareVersions
    /\ vy \in CompareVersions
    /\ vz \in CompareVersions
    /\ cmp = <<>>
    /\ IdleParse
    /\ IdleEnv
    /\ IdleGoenv
    /\ IdleMain

\* the calls a sort makes on x, y, z
CallCompareVersion ==
    /\ cmp = <<>>
    /\ cmp' = << [ xx |-> CompareVersion(vx, vx),
                   xy |-> CompareVersion(vx, vy),
                   yx |-> CompareVersion(vy, vx),
                   yz |-> CompareVersion(vy, vz),
                   xz |-> CompareVersion(vx, vz) ] >>
    /\ UNCHANGED <<vx, vy, vz, parseVars, envVars, goenvVars, mainVars>>

NextCompare == CallCompareVersion

SpecCompare == InitCompare /\ [][NextCompare]_vars

\* C4: CompareVersion is a consistent total order over any mixed set of
\* Stable, Beta, RC and Head versions: CompareVersion(x,x) = 0,
\* CompareVersion(x,y) = -CompareVersion(y,x), CompareVersion(x,y) <= 0 and
\* CompareVersion(y,z) <= 0 imply CompareVersion(x,z) <= 0, and every result
\* is one of -1, 0, 1.
C4_TotalOrder ==
    cmp # <<>> =>
        LET c == cmp[1]
        IN  /\ c.xx = 0
            /\ c.xy = 0 - c.yx
            /\ (c.xy <= 0 /\ c.yz <= 0) => c.xz <= 0
            /\ {c.xx, c.xy, c.yx, c.yz, c.xz} \subseteq {-1, 0, 1}

\* a chain over three kinds has been compared: beta below rc below stable
C4_Witness ==
    /\ cmp # <<>>
    /\ vx.Type = Beta /\ vy.Type = RC /\ vz.Type = Stable
    /\ cmp[1].xy = -1 /\ cmp[1].yz = -1 /\ cmp[1].xz = -1

\* C5: if x is Head and y is not Head then CompareVersion(x,y) = 1 and
\* CompareVersion(y,x) = -1, whatever the numeric fields of y are; if both
\* are Head the result is 0.
C5_HeadGreatest ==
    cmp # <<>> =>
        /\ (vx.Type = TypeHead /\ vy.Type # TypeHead) =>
               (cmp[1].xy = 1 /\ cmp[1].yx = -1)
        /\ (vx.Type = TypeHead /\ vy.Type = TypeHead) => cmp[1].xy = 0

\* Head has been compared with the greatest numbered stable version
C5_Witness ==
    /\ cmp # <<>>
    /\ vx.Type = TypeHead
    /\ vy = Version(Stable, MaxMajor, MaxNum, MaxNum, 0)
    /\ cmp[1].xy = 1

\* the stability rank of C6: Stable > RC > Beta
Rank(t) == IF t = Stable THEN 2 ELSE IF t = RC THEN 1 ELSE 0

Sign(n) == IF n > 0 THEN 1 ELSE IF n < 0 THEN -1 ELSE 0

\* C6: for two non-Head versions major then minor decide the order
\* numerically; with major and minor equal and the kinds different the order
\* is Stable > RC > Beta regardless of patch and release numbers; with equal
\* kinds Stable versions are ordered by patch and Beta/RC versions by
\* release number (1.16 > 1.16rc1 > 1.16beta1, 1.15.10 > 1.15.9 > 1.14.99).
C6_FieldOrder ==
    (cmp # <<>> /\ vx.Type # TypeHead /\ vy.Type # TypeHead) =>
        LET c == cmp[1].xy
        IN  /\ vx.Major # vy.Major => c = Sign(vx.Major - vy.Major)
            /\ (vx.Major = vy.Major /\ vx.Minor # vy.Minor) =>
                   c = Sign(vx.Minor - vy.Minor)
            /\ (vx.Major = vy.Major /\ vx.Minor = vy.Minor /\ vx.Type # vy.Type) =>
                   c = Sign(Rank(vx.Type) - Rank(vy.Type))
            /\ (vx.Major = vy.Major /\ vx.Minor = vy.Minor /\ vx.Type = vy.Type) =>
                   c = IF vx.Type = Stable THEN Sign(vx.Patch - vy.Patch)
                       ELSE Sign(vx.Release - vy.Release)
            /\ (vx = v1_16 /\ vy = v1_16rc1) => c = 1
            /\ (vx = v1_16rc1 /\ vy = v1_16beta1) => c = 1
            /\ (vx = v1_15_10 /\ vy = v1_15_9) => c = 1
            /\ (vx = v1_15_9 /\ vy = v1_14_99) => c = 1

\* an rc with a low release number has been compared with a beta of the
\* same line with a higher one
C6_Witness ==
    /\ cmp # <<>>
    /\ vx.Type = RC /\ vy.Type = Beta
    /\ vx.Major = vy.Major /\ vx.Minor = vy.Minor
    /\ vx.Release < vy.Release
    /\ cmp[1].xy = 1

----------------------------------------------------------------------------
(* SpecEqual: EqualVersion and String on two parsed texts                  *)

\* the numbers written in the texts: a leading zero, and two spellings of 1
NumTexts == { <<"0">>, <<"1">>, <<"0", "1">> }

OptPatchTexts == {<<>>} \cup {<<".">> \o n : n \in NumTexts}
OptSuffixTexts == {<<>>} \cup {w \o n : w \in {betaWord, rcWord}, n \in NumTexts}

\* [go] 1 . minor [. patch] [(beta|rc) release], the head sentinel, and a text
\* that is no version
GrammarTexts ==
    {pre \o <<"1", ".">> \o mi \o pa \o su :
        pre \in {<<>>, goPrefix}, mi \in NumTexts,
        pa \in OptPatchTexts, su \in OptSuffixTexts}
    \cup {headVersion, bodyHead}

InitEqual ==
    /\ text \in GrammarTexts
    /\ text2 \in GrammarTexts
    /\ typed = 0
    /\ parsed = <<>>
    /\ reparsed = <<>>
    /\ equal = <<>>
    /\ IdleCompare
    /\ IdleEnv
    /\ IdleGoenv
    /\ IdleMain

\* x, err := ParseVersion(text); y, err := ParseVersion(text2)
CallParseBoth ==
    /\ parsed = <<>>
    /\ parsed' = <<ParseVersion(text), ParseVersion(text2)>>
    /\ UNCHANGED <<text, text2, typed, reparsed, equal, compareVars, envVars, goenvVars, mainVars>>

\* EqualVersion(x, y) and x.String() == y.String() on the two parsed versions
CallEqualVersion ==
    /\ parsed # <<>>
    /\ equal = <<>>
    /\ parsed[1].err = "nil"
    /\ parsed[2].err = "nil"
    /\ equal' = << EqualVersion(parsed[1].v[1], parsed[2].v[1]),
                   String(parsed[1].v[1]) = String(parsed[2].v[1]) >>
    /\ UNCHANGED <<text, text2, typed, parsed, reparsed, compareVars, envVars, goenvVars, mainVars>>

NextEqual ==
    \/ CallParseBoth
    \/ CallEqualVersion

SpecEqual == InitEqual /\ [][NextEqual]_vars

\* C7: for all Versions x and y returned by ParseVersion, EqualVersion(x,y)
\* holds if and only if x.String() == y.String().
C7_EqualIffSameString ==
    equal # <<>> => (equal[1] <=> equal[2])

\* two different spellings of one version have been found equal with the
\* same String, and two versions that differ only in the patch unequal
C7_Witness ==
    /\ equal # <<>>
    /\ text # text2
    /\ TrimPrefix(text, goPrefix) # TrimPrefix(text2, goPrefix)
    /\ equal[1] /\ equal[2]

----------------------------------------------------------------------------
(* The release catalog: the remote listing, its cache file, env.releases   *)

\* the struct literals remoteFile{...} and remoteRelease{...}; the checksum
\* and the size of a file are copied like its name and are left out
remoteFile(filename, os, arch, kind) ==
    [Filename |-> filename, OS |-> os, Arch |-> arch, Kind |-> kind]

remoteRelease(version, stable, files) ==
    [Version |-> version, Stable |-> stable, Files |-> files]

\* the struct literal Release{...} built by convertReleases
Release(version, stable, filename) ==
    [Version |-> version, Stable |-> stable, Filename |-> filename]

\* targetRelease that does not look at the kind of the file
targetReleaseAnyKind(f) ==
    IF f.OS # goos THEN FALSE
    ELSE LET arch == IF goarch = "arm" THEN "armv6l" ELSE goarch
         IN  IF f.Arch # arch THEN FALSE ELSE TRUE

\* targetRelease, with runtime.GOOS and runtime.GOARCH of the running program
targetRelease(f) ==
    IF f.OS # goos \/ f.Kind # "archive" THEN FALSE
    ELSE LET arch == IF goarch = "arm" THEN "armv6l" ELSE goarch
         IN  IF f.Arch # arch THEN FALSE ELSE TRUE

\* the pairs (r, f) the two loops of convertReleases visit, in their order
RECURSIVE FilesOf(_, _)
FilesOf(r, k) ==
    IF k > Len(r.Files) THEN <<>>
    ELSE <<[r |-> r, f |-> r.Files[k]]>> \o FilesOf(r, k + 1)

RECURSIVE Visited(_)
Visited(rs) ==
    IF rs = <<>> THEN <<>>
    ELSE FilesOf(Head(rs), 1) \o Visited(Tail(rs))

\* the less function handed to sort.Slice
Less(a, b) == CompareVersion(a.Version, b.Version) < 0

\* sort.Slice on a slice of fewer than 12 elements: the insertion sort of
\* package sort, which moves an element left while it is less than the one
\* before it
RECURSIVE InsertionStep(_, _)
InsertionStep(sorted, r) ==
    IF sorted # <<>> /\ Less(r, sorted[Len(sorted)])
    THEN InsertionStep(SubSeq(sorted, 1, Len(sorted) - 1), r) \o <<sorted[Len(sorted)]>>
    ELSE sorted \o <<r>>

\* a sort.Slice that leaves the slice as it is
SortSliceSkipped(rls) == rls

RECURSIVE SortSlice(_)
SortSlice(rls) ==
    IF rls = <<>> THEN <<>>
    ELSE InsertionStep(SortSlice(SubSeq(rls, 1, Len(rls) - 1)), rls[Len(rls)])

RECURSIVE ConvertLoop(_, _)

\* the end of the loop body with `continue` in place of `return nil, err`: a
\* kept record that does not parse is left out
AppendParsedSkipsBad(pairs, rls, p, version) ==
    IF version.err # "nil" THEN ConvertLoop(Tail(pairs), rls)
    ELSE ConvertLoop(Tail(pairs),
             rls \o <<Release(version.v[1], p.r.Stable, p.f.Filename)>>)

\* the end of the loop body of convertReleases for a kept pair p, version
\* being what ParseVersion returned: the error ends the conversion
AppendParsed(pairs, rls, p, version) ==
    IF version.err # "nil" THEN [rls |-> <<>>, err |-> version.err]
    ELSE ConvertLoop(Tail(pairs),
             rls \o <<Release(version.v[1], p.r.Stable, p.f.Filename)>>)

\* the loops of convertReleases over the visited pairs
ConvertLoop(pairs, rls) ==
    IF pairs = <<>> THEN [rls |-> rls, err |-> "nil"]
    ELSE IF ~targetRelease(Head(pairs).f) THEN ConvertLoop(Tail(pairs), rls)
    ELSE AppendParsed(pairs, rls, Head(pairs),
             ParseVersion(TrimPrefix(Head(pairs).r.Version, goPrefix)))

\* the sort.Slice and the return at the end of convertReleases
SortConverted(c) ==
    IF c.err # "nil" THEN c
    ELSE [rls |-> SortSlice(c.rls), err |-> "nil"]

\* convertReleases: (rls, nil) or (nil, err); a nil slice is <<>>
convertReleases(rs) == SortConverted(ConvertLoop(Visited(rs), <<>>))

\* downloads.json: absent, the JSON of a listing, or bytes that do not decode
NoFile == [state |-> "absent", records |-> <<>>]
JsonFile(rs) == [state |-> "json", records |-> rs]
CorruptFile == [state |-> "corrupt", records |-> <<>>]

\* the end of env.loadReleases, c being what convertReleases returned
AssignConverted(c) ==
    IF c.err # "nil" THEN [releases |-> releases, err |-> c.err]
    ELSE [releases |-> c.rls, err |-> "nil"]

\* loadReleases without the os.Stat of the file: the missing file is reported
\* by os.Open
loadReleasesNoStat ==
    IF cacheFile.state = "absent"
    THEN [releases |-> releases, err |-> "failed to open releases file"]
    ELSE IF cacheFile.state = "corrupt"
    THEN [releases |-> releases, err |-> "failed to decode JSON"]
    ELSE AssignConverted(convertReleases(cacheFile.records))

\* env.loadReleases: the new env.releases and the error
loadReleases ==
    IF cacheFile.state = "absent"
    THEN [releases |-> releases, err |-> "ErrReleasesFileNotDownloaded"]
    ELSE IF cacheFile.state = "corrupt"
    THEN [releases |-> releases, err |-> "failed to decode JSON"]
    ELSE AssignConverted(convertReleases(cacheFile.records))

----------------------------------------------------------------------------
(* Spec: one Env, its cache file and the server                            *)

\* runtime.GOOS and runtime.GOARCH of the builds modelled
Runtimes == { <<"linux", "amd64">>, <<"linux", "arm">> }

\* the files of the listings
fLinuxAmd64 == remoteFile("linux-amd64.tar.gz", "linux", "amd64", "archive")
fLinuxAmd64Zip == remoteFile("linux-amd64.zip", "linux", "amd64", "archive")
fLinuxAmd64Pkg == remoteFile("linux-amd64.pkg", "linux", "amd64", "installer")
fDarwinAmd64 == remoteFile("darwin-amd64.tar.gz", "darwin", "amd64", "archive")
fLinuxArmv6l == remoteFile("linux-armv6l.tar.gz", "linux", "armv6l", "archive")
fLinuxArm == remoteFile("linux-arm.tar.gz", "linux", "arm", "archive")

\* the records of the listings: one for darwin and arm only, one whose
\* matching file comes after an installer, one with a malformed version
\* text, one with "go" twice and an arch that is literally "arm", one
\* without "go" and with two matching files
RecordShapes ==
    { remoteRelease(goPrefix \o body1_16, TRUE, <<fDarwinAmd64, fLinuxArmv6l>>),
      remoteRelease(goPrefix \o body1_16 \o rcWord \o <<"1">>, FALSE,
                    <<fLinuxAmd64Pkg, fLinuxAmd64, fLinuxArmv6l>>),
      remoteRelease(goPrefix \o body1_16dot, TRUE, <<fLinuxAmd64>>),
      remoteRelease(goPrefix \o goPrefix \o <<"1", ".", "1", "4">>, TRUE,
                    <<fLinuxArm, fLinuxArmv6l>>),
      remoteRelease(<<"1", ".", "1", "5", ".", "1">>, TRUE,
                    <<fLinuxAmd64, fLinuxAmd64Zip>>) }

\* how many records a listing has at most
MaxRecords == 2

\* the listings: up to MaxRecords records, no record twice
Listings ==
    UNION { {l \in [1..n -> RecordShapes] :
                \A i \in 1..n : \A j \in 1..n : l[i] = l[j] => i = j} :
            n \in 0..MaxRecords }

\* the step of UpdateDownloadList that fails, "none" when every step succeeds
UpdateFailures ==
    {"none", "fetch", "status", "content-type", "decode", "mkdir", "create", "encode"}

UpdateError(fail) ==
    CASE fail = "fetch" -> "failed to get download list"
      [] fail = "status" -> "failed to get download list: status"
      [] fail = "content-type" -> "the server responds unexpected Content-Type"
      [] fail = "decode" -> "failed to decode JSON"
      [] fail = "mkdir" -> "failed to create config directory"
      [] fail = "create" -> "failed to create download list file"
      [] fail = "encode" -> "failed to encode JSON"
      [] OTHER -> "nil"

\* lastOp: the call, its error, and the listing it handed to convertReleases
Op(op, err, converted) == [op |-> op, err |-> err, converted |-> converted]

\* the URL UpdateDownloadList sends its GET request to
downloadListURL == "https://golang.org/dl/?mode=json&include=all"

\* answer: the argument of the last query and the value it returned, a nil
\* slice or a nil *Release being <<>>; when the call before it was the same
\* query with the same argument, `before` holds what that call returned
Answer(op, arg, value) ==
    [arg |-> arg, value |-> value,
     before |-> IF lastOp.op = op /\ answer.arg = arg
                THEN <<[value |-> answer.value, err |-> lastOp.err]>>
                ELSE <<>>]

NoAnswer == [arg |-> <<>>, value |-> <<>>, before |-> <<>>]

Init ==
    /\ \E rt \in Runtimes : goos = rt[1] /\ goarch = rt[2]
    /\ remote \in Listings
    /\ cacheFile \in {NoFile, CorruptFile} \cup {JsonFile(l) : l \in Listings}
    /\ releases = <<>>
    /\ lastOp = Op("New", "nil", "none")
    /\ requests = {}
    /\ answer = NoAnswer
    /\ IdleParse
    /\ IdleCompare
    /\ IdleGoenv
    /\ IdleMain

\* env.UpdateDownloadList() when the step `fail` fails, c being what
\* convertReleases returns for the listing of the server
UpdateFrom(fail, c) ==
    IF fail \in {"fetch", "status", "content-type", "decode"}
    THEN /\ lastOp' = Op("UpdateDownloadList", UpdateError(fail), "none")
         /\ UNCHANGED <<releases, cacheFile>>
    ELSE IF c.err # "nil"
    THEN /\ lastOp' = Op("UpdateDownloadList", c.err, "remote")
         /\ UNCHANGED <<releases, cacheFile>>
    ELSE /\ releases' = c.rls
         /\ lastOp' = Op("UpdateDownloadList", UpdateError(fail), "remote")
         /\ cacheFile' = IF fail \in {"mkdir", "create"} THEN cacheFile
                         ELSE IF fail = "encode" THEN CorruptFile
                         ELSE JsonFile(remote)

UpdateAnyFailure(c) == \E fail \in UpdateFailures : UpdateFrom(fail, c)

\* env.UpdateDownloadList(), the server answering with the listing `remote`
UpdateDownloadListCall ==
    /\ UpdateAnyFailure(convertReleases(remote))
    /\ requests' = requests \cup {downloadListURL}
    /\ UNCHANGED <<goos, goarch, remote, answer, parseVars, compareVars, goenvVars>>

UpdateDownloadList == UpdateDownloadListCall /\ UNCHANGED mainVars

\* `if env.releases == nil { if err := env.loadReleases(); ... }`, l being
\* what loadReleases returned
LoadIfNil(op, l) ==
    IF releases = <<>>
    THEN /\ releases' = l.releases
         /\ lastOp' = Op(op, l.err,
                         IF cacheFile.state = "json" THEN "cache" ELSE "none")
    ELSE /\ lastOp' = Op(op, "nil", "none")
         /\ UNCHANGED releases

\* env.releases and the error after `if env.releases == nil { ... }`, l being
\* what loadReleases returned
AfterLoadIfNil(l) ==
    IF releases = <<>> THEN l ELSE [releases |-> releases, err |-> "nil"]

\* what Releases returns after the load l: nil on an error and for an empty
\* catalog, slices.Clone(env.releases) otherwise
ReleasesValue(l) ==
    IF l.err # "nil" THEN <<>>
    ELSE IF Len(l.releases) = 0 THEN <<>>
    ELSE l.releases

\* Releases, l being what loadReleases returns
ReleasesFrom(l) ==
    /\ LoadIfNil("Releases", l)
    /\ answer' = Answer("Releases", <<>>, ReleasesValue(AfterLoadIfNil(l)))

\* env.Releases(): loads the cache file when env.releases is nil
Releases ==
    /\ ReleasesFrom(loadReleases)
    /\ UNCHANGED <<goos, goarch, remote, cacheFile, requests,
                   parseVars, compareVars, goenvVars, mainVars>>

Next ==
    \/ UpdateDownloadList
    \/ Releases

Spec == Init /\ [][Next]_vars

\* the listing the last call handed to convertReleases
Converted == IF lastOp.converted = "remote" THEN remote ELSE cacheFile.records

\* C8: after every successful catalog load, from the cache file or from the
\* remote listing, the in-memory release list is sorted ascending by
\* CompareVersion, for any order of the input records.
C8_CatalogSorted ==
    \A i \in 1..Len(releases) : \A j \in 1..Len(releases) :
        i < j => CompareVersion(releases[i].Version, releases[j].Version) <= 0

\* a listing whose kept records were not in ascending order has been loaded
C8_Witness ==
    /\ lastOp.converted # "none"
    /\ lastOp.err = "nil"
    /\ Len(releases) >= 2
    /\ ConvertLoop(Visited(Converted), <<>>).rls # releases
    /\ CompareVersion(releases[1].Version, releases[Len(releases)].Version) < 0

\* the file a build keeps, as C9 states it
Matches(f) ==
    /\ f.OS = goos
    /\ f.Kind = "archive"
    /\ f.Arch = (IF goarch = "arm" THEN "armv6l" ELSE goarch)

\* C9: the loaded catalog contains a Release for a file of a record if and
\* only if that file's os equals the running OS, its kind is "archive" and
\* its arch equals the running architecture ("arm" matched against
\* "armv6l"); every other file is excluded.
C9_KeptIffMatches ==
    (lastOp.converted # "none" /\ lastOp.err # "ErrVersionSyntax") =>
        LET pairs == Visited(Converted)
        IN  /\ \A i \in 1..Len(pairs) :
                   Matches(pairs[i].f) <=>
                       \E j \in 1..Len(releases) :
                           releases[j].Filename = pairs[i].f.Filename
            /\ Len(releases) =
                   Cardinality({i \in 1..Len(pairs) : Matches(pairs[i].f)})

\* on arm a listing with an armv6l archive, an "arm" archive and files of
\* other platforms has been loaded
C9_Witness ==
    /\ lastOp.converted # "none"
    /\ lastOp.err # "ErrVersionSyntax"
    /\ goarch = "arm"
    /\ releases # <<>>
    /\ \E i \in 1..Len(Converted) :
           \E k \in 1..Len(Converted[i].Files) : Converted[i].Files[k] = fLinuxArm
    /\ \E i \in 1..Len(Converted) :
           \E k \in 1..Len(Converted[i].Files) : Converted[i].Files[k] = fDarwinAmd64

\* a kept record of the listing has a version text that ParseVersion, called
\* as convertReleases calls it, rejects
BadKept(rs) ==
    \E i \in 1..Len(rs) :
        /\ \E k \in 1..Len(rs[i].Files) : Matches(rs[i].Files[k])
        /\ ParseVersion(TrimPrefix(rs[i].Version, goPrefix)).err # "nil"

C10_WitnessUnkept ==
    /\ lastOp.converted = "cache"
    /\ lastOp.err = "nil"
    /\ releases # <<>>
    /\ \E i \in 1..Len(Converted) : Converted[i].Version = goPrefix \o body1_16dot

----------------------------------------------------------------------------
(* The queries on the catalog: FindRelease, RecentReleases and the         *)
(* iterator selectRecentReleases                                           *)

\* the loop of FindRelease from index i on with `==` on the fields of the two
\* versions in place of EqualVersion
RECURSIVE FindLoopSameFields(_, _, _)
FindLoopSameFields(rls, i, v) ==
    IF i > Len(rls)
    THEN [r |-> <<>>, err |-> "specified version is not found"]
    ELSE IF rls[i].Version = v THEN [r |-> <<rls[i]>>, err |-> "nil"]
    ELSE FindLoopSameFields(rls, i + 1, v)

\* the loop of FindRelease over env.releases from index i on, and the return
\* after it
RECURSIVE FindLoop(_, _, _)
FindLoop(rls, i, v) ==
    IF i > Len(rls)
    THEN [r |-> <<>>, err |-> "specified version is not found"]
    ELSE IF EqualVersion(rls[i].Version, v) THEN [r |-> <<rls[i]>>, err |-> "nil"]
    ELSE FindLoop(rls, i + 1, v)

\* what FindRelease(v) returns after the load l
FindReleaseIn(l, v) ==
    IF l.err # "nil" THEN [r |-> <<>>, err |-> l.err]
    ELSE FindLoop(l.releases, 1, v)

\* &Version{Major: r.Version.Major, Minor: r.Version.Minor}
LineOf(r) == [Major |-> r.Version.Major, Minor |-> r.Version.Minor]

SameLine(r, latest) ==
    r.Version.Major = latest.Major /\ r.Version.Minor = latest.Minor

\* the first loop without the test of major and minor
RECURSIVE UnstableLoopAnyLine(_, _, _, _)
UnstableLoopAnyLine(rls, i, latest, out) ==
    IF i = 0 THEN out
    ELSE IF rls[i].Stable THEN out
    ELSE UnstableLoopAnyLine(rls, i - 1, <<LineOf(rls[i])>>, out \o <<rls[i]>>)

\* the first loop of selectRecentReleases, backward from index i; latest is
\* <<>> while nil, out is what has been yielded
RECURSIVE UnstableLoop(_, _, _, _)
UnstableLoop(rls, i, latest, out) ==
    IF i = 0 THEN out
    ELSE IF rls[i].Stable THEN out
    ELSE IF latest # <<>> /\ ~SameLine(rls[i], latest[1]) THEN out
    ELSE UnstableLoop(rls, i - 1,
             IF latest = <<>> THEN <<LineOf(rls[i])>> ELSE latest,
             out \o <<rls[i]>>)

RECURSIVE StableLoop(_, _, _, _, _, _)

\* `if count < 2 { yield(r) }; count++` with `count < 3`
StableYieldThree(rls, i, latest, n, count, out) ==
    StableLoop(rls, i - 1, latest, n, count + 1,
               IF count < 3 THEN out \o <<rls[i]>> ELSE out)

\* `if count < 2 { yield(r) }; count++` and the next round of the loop
StableYield(rls, i, latest, n, count, out) ==
    StableLoop(rls, i - 1, latest, n, count + 1,
               IF count < 2 THEN out \o <<rls[i]>> ELSE out)

\* the start of a group, n being the counter after `if latest != nil { n-- }`
StableGroup(rls, i, n, out) ==
    IF n = 0 THEN out
    ELSE StableYield(rls, i, <<LineOf(rls[i])>>, n, 0, out)

\* the second loop of selectRecentReleases, backward from index i
StableLoop(rls, i, latest, n, count, out) ==
    IF i = 0 THEN out
    ELSE IF ~rls[i].Stable THEN StableLoop(rls, i - 1, latest, n, count, out)
    ELSE IF latest = <<>> \/ ~SameLine(rls[i], latest[1])
    THEN StableGroup(rls, i, IF latest # <<>> THEN n - 1 ELSE n, out)
    ELSE StableYield(rls, i, latest, n, count, out)

\* what the iterator env.selectRecentReleases(n) yields over the catalog rls
selectRecentReleases(rls, n) ==
    StableLoop(rls, Len(rls), <<>>, n, 0, UnstableLoop(rls, Len(rls), <<>>, <<>>))

\* slices.Reverse
Reverse(s) == [i \in 1..Len(s) |-> s[Len(s) + 1 - i]]

\* RecentReleases that returns what the iterator yields, in its order
RecentReleasesNotReversed(l) ==
    IF l.err # "nil" THEN [releases |-> l.releases, value |-> <<>>]
    ELSE IF Len(l.releases) = 0 THEN [releases |-> l.releases, value |-> <<>>]
    ELSE [releases |-> l.releases, value |-> selectRecentReleases(l.releases, 2)]

\* RecentReleases that reverses env.releases itself
RecentReleasesInPlace(l) ==
    IF l.err # "nil" THEN [releases |-> l.releases, value |-> <<>>]
    ELSE IF Len(l.releases) = 0 THEN [releases |-> l.releases, value |-> <<>>]
    ELSE [releases |-> Reverse(l.releases),
          value |-> Reverse(selectRecentReleases(l.releases, 2))]

\* RecentReleases after the load l: env.releases and the slice returned;
\* slices.Collect fills a new slice and slices.Reverse reverses that one
RecentReleasesIn(l) ==
    IF l.err # "nil" THEN [releases |-> l.releases, value |-> <<>>]
    ELSE IF Len(l.releases) = 0 THEN [releases |-> l.releases, value |-> <<>>]
    ELSE [releases |-> l.releases,
          value |-> Reverse(selectRecentReleases(l.releases, 2))]

\* which listing a query hands to convertReleases
QueryConverted ==
    IF releases = <<>> /\ cacheFile.state = "json" THEN "cache" ELSE "none"

\* the versions FindRelease is asked for: one no catalog has, three of the
\* catalogs, and a beta that carries a patch number
v1_15_2 == Version(Stable, 1, 15, 2, 0)
v1_14_1 == Version(Stable, 1, 14, 1, 0)
v1_16_7beta1 == Version(Beta, 1, 16, 7, 1)

FindVersions == {v1_16, v1_15_2, v1_14_1, v1_16beta1, v1_16_7beta1}

FindReleaseFrom(l, found, v) ==
    /\ releases' = l.releases
    /\ lastOp' = Op("FindRelease", found.err, QueryConverted)
    /\ answer' = Answer("FindRelease", <<v>>, found.r)

FindReleaseLoaded(l, v) == FindReleaseFrom(l, FindReleaseIn(l, v), v)

\* env.FindRelease(v)
FindRelease(v) ==
    /\ FindReleaseLoaded(AfterLoadIfNil(loadReleases), v)
    /\ UNCHANGED <<goos, goarch, remote, cacheFile, requests,
                   parseVars, compareVars, goenvVars, mainVars>>

RecentReleasesFrom(l, recent) ==
    /\ releases' = recent.releases
    /\ lastOp' = Op("RecentReleases", l.err, QueryConverted)
    /\ answer' = Answer("RecentReleases", <<>>, recent.value)

RecentReleasesLoaded(l) == RecentReleasesFrom(l, RecentReleasesIn(l))

\* env.RecentReleases()
RecentReleases ==
    /\ RecentReleasesLoaded(AfterLoadIfNil(loadReleases))
    /\ UNCHANGED <<goos, goarch, remote, cacheFile, requests,
                   parseVars, compareVars, goenvVars, mainVars>>

\* the largest n the iterator is called with
MaxN == 3

\* slices.Collect(env.selectRecentReleases(n))
CollectRecent(n) ==
    /\ answer' = Answer("selectRecentReleases", <<n>>,
                        selectRecentReleases(releases, n))
    /\ lastOp' = Op("selectRecentReleases", "nil", "none")
    /\ UNCHANGED <<goos, goarch, remote, cacheFile, releases, requests,
                   parseVars, compareVars, goenvVars, mainVars>>

----------------------------------------------------------------------------
(* SpecRecent: the queries on an Env whose catalog is loaded, or not yet   *)

\* the record of the listing for one archive of a version
recordOf(v, stable, f) == remoteRelease(goPrefix \o String(v), stable, <<f>>)

\* the records the listings of the cache file are made of, oldest first: a
\* single release of 1.13, three of 1.14, a release candidate and two
\* releases of 1.15, one of them listed with two archives, and the betas
\* and the release candidate of 1.16
CatalogRecords ==
    << recordOf(Version(Stable, 1, 13, 5, 0), TRUE, fLinuxAmd64),
       recordOf(v1_14_1, TRUE, fLinuxAmd64),
       recordOf(Version(Stable, 1, 14, 2, 0), TRUE, fLinuxAmd64),
       recordOf(Version(Stable, 1, 14, 3, 0), TRUE, fLinuxAmd64),
       recordOf(Version(RC, 1, 15, 0, 1), FALSE, fLinuxAmd64),
       recordOf(Version(Stable, 1, 15, 1, 0), TRUE, fLinuxAmd64),
       recordOf(v1_15_2, TRUE, fLinuxAmd64),
       recordOf(v1_15_2, TRUE, fLinuxAmd64Zip),
       recordOf(v1_16beta1, FALSE, fLinuxAmd64),
       recordOf(Version(Beta, 1, 16, 0, 2), FALSE, fLinuxAmd64),
       recordOf(v1_16rc1, FALSE, fLinuxAmd64) >>

\* how many records a listing of the cache file has at most
MaxCatalog == 8

\* the records of the set S of indices, newest first as the server lists them
RECURSIVE PickFrom(_, _)
PickFrom(S, i) ==
    IF i = 0 THEN <<>>
    ELSE (IF i \in S THEN <<CatalogRecords[i]>> ELSE <<>>) \o PickFrom(S, i - 1)

CatalogListings ==
    { PickFrom(S, Len(CatalogRecords)) :
          S \in { T \in SUBSET (1..Len(CatalogRecords)) :
                      Cardinality(T) <= MaxCatalog } }

InitRecent ==
    /\ goos = "linux"
    /\ goarch = "amd64"
    /\ remote = <<>>
    /\ cacheFile \in {NoFile, CorruptFile} \cup {JsonFile(l) : l \in CatalogListings}
    /\ releases = <<>>
    /\ lastOp = Op("New", "nil", "none")
    /\ requests = {}
    /\ answer = NoAnswer
    /\ IdleParse
    /\ IdleCompare
    /\ IdleGoenv
    /\ IdleMain

NextRecent ==
    \/ Releases
    \/ RecentReleases
    \/ \E v \in FindVersions : FindRelease(v)
    \/ \E n \in 0..MaxN : CollectRecent(n)

SpecRecent == InitRecent /\ [][NextRecent]_vars

\* the listings of the server and of the cache file in SpecFetch: an empty
\* one, and one with a release candidate and a release with two archives
FetchListings ==
    { <<>>,
      << remoteRelease(goPrefix \o body1_16 \o rcWord \o <<"1">>, FALSE,
                       <<fLinuxAmd64Pkg, fLinuxAmd64, fLinuxArmv6l>>),
         remoteRelease(<<"1", ".", "1", "5", ".", "1">>, TRUE,
                       <<fLinuxAmd64, fLinuxAmd64Zip>>) >> }

InitFetch ==
    /\ goos = "linux"
    /\ goarch = "amd64"
    /\ remote \in FetchListings
    /\ cacheFile \in {NoFile, CorruptFile} \cup {JsonFile(l) : l \in FetchListings}
    /\ releases = <<>>
    /\ lastOp = Op("New", "nil", "none")
    /\ requests = {}
    /\ answer = NoAnswer
    /\ IdleParse
    /\ IdleCompare
    /\ IdleGoenv
    /\ IdleMain

NextFetch ==
    \/ UpdateDownloadList
    \/ Releases
    \/ RecentReleases
    \/ \E v \in FindVersions : FindRelease(v)

SpecFetch == InitFetch /\ [][NextFetch]_vars

----------------------------------------------------------------------------
(* The claims on the queries                                               *)

\* the errors of a failed load of the cache file
LoadErrors == {"ErrReleasesFileNotDownloaded", "failed to decode JSON", "ErrVersionSyntax"}

\* the places of the catalog whose version compares equal to v
Hits(v) == {i \in 1..Len(releases) : EqualVersion(releases[i].Version, v)}

\* C11: on a loaded catalog FindRelease(v) returns the first release of the
\* catalog whose version compares equal to v whenever there is one, and
\* returns the error "specified version is not found" with no release
\* exactly when no entry of the catalog compares equal to v.
C11_FindRelease ==
    (lastOp.op = "FindRelease" /\ lastOp.err \notin LoadErrors) =>
        IF Hits(answer.arg[1]) # {}
        THEN /\ lastOp.err = "nil"
             /\ answer.value =
                    <<releases[CHOOSE i \in Hits(answer.arg[1]) :
                                   \A j \in Hits(answer.arg[1]) : i <= j]>>
        ELSE /\ lastOp.err = "specified version is not found"
             /\ answer.value = <<>>

\* FindRelease has answered for a version the catalog lists with two archives
C11_Witness ==
    /\ lastOp.op = "FindRelease"
    /\ lastOp.err = "nil"
    /\ answer.arg = <<v1_15_2>>
    /\ Cardinality(Hits(v1_15_2)) = 2
    /\ Len(releases) >= 4

\* FindRelease has found a beta whose patch number differs from the one asked for
C11_WitnessEqualNotSame ==
    /\ lastOp.op = "FindRelease"
    /\ answer.arg = <<v1_16_7beta1>>
    /\ answer.value # <<>>

QueryOps == {"FindRelease", "Releases", "RecentReleases"}

\* C12: when the catalog is not loaded and the cache file does not exist,
\* FindRelease, Releases and RecentReleases each fail with
\* ErrReleasesFileNotDownloaded, send no request and leave the catalog
\* unloaded; only UpdateDownloadList sends the request for the listing.
C12_NotDownloaded ==
    [][ /\ (releases = <<>> /\ cacheFile.state = "absent" /\ lastOp'.op \in QueryOps) =>
              /\ lastOp'.err = "ErrReleasesFileNotDownloaded"
              /\ answer'.value = <<>>
              /\ requests' = requests
              /\ releases' = <<>>
        /\ requests' # requests => lastOp'.op = "UpdateDownloadList" ]_vars

\* a query has failed on the missing cache file after an update that sent its
\* request and could not write the file
C12_Witness ==
    /\ lastOp.op \in QueryOps
    /\ lastOp.err = "ErrReleasesFileNotDownloaded"
    /\ cacheFile = NoFile
    /\ releases = <<>>
    /\ requests = {downloadListURL}

\* the versions of a sequence of releases
VersionsOf(rls) == [i \in 1..Len(rls) |-> rls[i].Version]

\* the catalog of the example: 1.14.1, 1.14.2, 1.14.3, 1.15.1, 1.15.2 stable
\* and 1.16beta1, 1.16beta2, 1.16rc1 unstable
ExampleCatalog ==
    << v1_14_1, Version(Stable, 1, 14, 2, 0), Version(Stable, 1, 14, 3, 0),
       Version(Stable, 1, 15, 1, 0), v1_15_2,
       v1_16beta1, Version(Beta, 1, 16, 0, 2), v1_16rc1 >>

\* 1.16rc1, 1.16beta2, 1.16beta1, 1.15.2, 1.15.1, 1.14.3, 1.14.2
ExampleNewestFirst ==
    << v1_16rc1, Version(Beta, 1, 16, 0, 2), v1_16beta1,
       v1_15_2, Version(Stable, 1, 15, 1, 0),
       Version(Stable, 1, 14, 3, 0), Version(Stable, 1, 14, 2, 0) >>

RecentAnswered == lastOp.op = "RecentReleases" /\ lastOp.err = "nil"

\* C13 as stated: the sequence RecentReleases returns is newest first, each
\* element comparing greater than or equal to the one after it, the entries
\* of the unstable line before the stable groups; for the catalog of the
\* example the result is 1.16rc1, 1.16beta2, 1.16beta1, 1.15.2, 1.15.1,
\* 1.14.3, 1.14.2.
C13_NewestFirst ==
    RecentAnswered =>
        /\ \A i \in 1..Len(answer.value) : \A j \in 1..Len(answer.value) :
               i < j =>
                   /\ CompareVersion(answer.value[i].Version,
                                     answer.value[j].Version) >= 0
                   /\ ~(answer.value[i].Stable /\ ~answer.value[j].Stable)
        /\ VersionsOf(releases) = ExampleCatalog =>
               VersionsOf(answer.value) = ExampleNewestFirst

\* C13 amended: the sequence RecentReleases returns is oldest first, each
\* element comparing less than or equal to the one after it, the stable
\* groups before the entries of the unstable line; for the catalog of the
\* example the result is 1.14.2, 1.14.3, 1.15.1, 1.15.2, 1.16beta1,
\* 1.16beta2, 1.16rc1.
C13_OldestFirst ==
    RecentAnswered =>
        /\ \A i \in 1..Len(answer.value) : \A j \in 1..Len(answer.value) :
               i < j =>
                   /\ CompareVersion(answer.value[i].Version,
                                     answer.value[j].Version) <= 0
                   /\ ~(~answer.value[i].Stable /\ answer.value[j].Stable)
        /\ VersionsOf(releases) = ExampleCatalog =>
               VersionsOf(answer.value) = Reverse(ExampleNewestFirst)

\* RecentReleases has answered on the catalog of the example
C13_Witness ==
    /\ RecentAnswered
    /\ VersionsOf(releases) = ExampleCatalog
    /\ Len(answer.value) = 7

NewerLine(a, b) ==
    a.Major > b.Major \/ (a.Major = b.Major /\ a.Minor > b.Minor)

StablePlaces == {i \in 1..Len(releases) : releases[i].Stable}
StableLines == {LineOf(releases[i]) : i \in StablePlaces}

\* the stable places of the n newest stable lines, two newest of each
ExpectedStable(n) ==
    {i \in StablePlaces :
        /\ Cardinality({L \in StableLines : NewerLine(L, LineOf(releases[i]))}) < n
        /\ Cardinality({j \in StablePlaces :
               j > i /\ LineOf(releases[j]) = LineOf(releases[i])}) < 2}

\* the releases at the places S, from place i backward
RECURSIVE Backward(_, _)
Backward(S, i) ==
    IF i = 0 THEN <<>>
    ELSE (IF i \in S THEN <<releases[i]>> ELSE <<>>) \o Backward(S, i - 1)

IsStable(r) == r.Stable
IsUnstable(r) == ~r.Stable

Collected == lastOp.op = "selectRecentReleases"

\* C14: for every sorted catalog and n >= 0 the stable entries that
\* selectRecentReleases(n) yields are exactly the (at most 2) newest stable
\* entries of each of the min(n, number of stable lines) newest stable
\* major.minor lines: never more than n lines, never more than 2 entries of
\* a line, at most 2n entries.
C14_StableSelection ==
    Collected =>
        LET n == answer.arg[1]
            stable == SelectSeq(answer.value, IsStable)
            lines == {LineOf(stable[i]) : i \in 1..Len(stable)}
        IN  /\ stable = Backward(ExpectedStable(n), Len(releases))
            /\ Cardinality(lines) =
                   (IF n < Cardinality(StableLines) THEN n
                    ELSE Cardinality(StableLines))
            /\ \A L \in lines :
                   Cardinality({i \in 1..Len(stable) : LineOf(stable[i]) = L}) <= 2
            /\ Len(stable) <= 2 * n

\* the iterator has been collected with n = 2 on a catalog with three stable
\* lines, one of the two newest having three entries
C14_Witness ==
    /\ Collected
    /\ answer.arg = <<2>>
    /\ Cardinality(StableLines) = 3
    /\ \E L \in StableLines :
           /\ Cardinality({M \in StableLines : NewerLine(M, L)}) < 2
           /\ Cardinality({i \in StablePlaces : LineOf(releases[i]) = L}) = 3

\* the places of the run of non-stable releases at the newest end of the
\* catalog that are of the line of the newest entry
UnstableRun ==
    {i \in 1..Len(releases) :
        \A j \in i..Len(releases) :
            /\ ~releases[j].Stable
            /\ LineOf(releases[j]) = LineOf(releases[Len(releases)])}

\* C15: the unstable entries that selectRecentReleases yields are exactly
\* the maximal run of non-stable releases at the newest end of the sorted
\* catalog that share the major and minor of the newest entry, with no cap;
\* none when the newest entry is stable.
C15_UnstableSelection ==
    Collected =>
        /\ SelectSeq(answer.value, IsUnstable) = Backward(UnstableRun, Len(releases))
        /\ (releases # <<>> /\ releases[Len(releases)].Stable) =>
               SelectSeq(answer.value, IsUnstable) = <<>>

\* the iterator has yielded the three unstable entries of 1.16 and has
\* stopped at the release candidate of 1.15 right before them
C15_Witness ==
    /\ Collected
    /\ Len(SelectSeq(answer.value, IsUnstable)) = 3
    /\ Len(releases) >= 4
    /\ ~releases[Len(releases) - 3].Stable

\* C16: the queries RecentReleases, Releases and FindRelease leave a loaded
\* catalog as it is (length, order and every entry), and the same query
\* called twice in a row returns the same result.
C16_QueriesReadOnly ==
    /\ [](answer.before # <<>> =>
              answer.before[1] = [value |-> answer.value, err |-> lastOp.err])
    /\ [][(releases # <<>> /\ lastOp'.op \in QueryOps) => releases' = releases]_vars

\* RecentReleases has been called twice in a row on a loaded catalog
C16_Witness ==
    /\ lastOp.op = "RecentReleases"
    /\ answer.before # <<>>
    /\ Len(answer.value) >= 3
    /\ Len(releases) >= 4

----------------------------------------------------------------------------
(* Package goenv: the install root, the registry env.installedVersions,    *)
(* the version link and the cache directory                                *)

\* ParseVersion of package goenv: versionRegexp on the text as it is, no
\* "go" prefix and no head version
goenvParseVersion(s) ==
    IF versionRegexpStrict(s) = <<>> THEN ErrVersionSyntax
    ELSE ParseVersionStrict(s)

\* env.versionGoRoot(v): the name of the directory under env.envRoot
versionGoRoot(v) == goPrefix \o String(v)

\* a map with the key k set to x, and with the key k deleted
MapSet(m, k, x) == [n \in DOMAIN m \cup {k} |-> IF n = k THEN x ELSE m[n]]
MapDelete(m, k) == [n \in DOMAIN m \ {k} |-> m[n]]

\* the version a directory of the root gives the registry, <<>> for none:
\* installedVersions parses info.Name()[2:]
ScannedVersion(name) ==
    goenvParseVersion(SubSeq(name, 3, Len(name))).v

\* env.init(): installedVersions[version.String()] = version for every
\* go* directory of the root whose name parses
ScanRoot(ds) ==
    LET found == {ScannedVersion(name)[1] :
                     name \in {d \in DOMAIN ds : ScannedVersion(d) # <<>>}}
    IN  [k \in {String(v) : v \in found} |->
            CHOOSE v \in found : String(v) = k]

\* env.HasVersion(v)
HasVersion(v) == String(v) \in DOMAIN installedVersions

\* the greatest of the versions of the registry reg: the last element of
\* env.InstalledVersions(), which sorts the map's values with CompareVersion
LastInstalled(reg) ==
    CHOOSE v \in {reg[k] : k \in DOMAIN reg} :
        \A k \in DOMAIN reg : CompareVersion(reg[k], v) <= 0

\* env.makeLink(v) when the step `fail` fails: the link and the error
makeLink(v, fail) ==
    IF link # <<>> /\ fail = "removeLink"
    THEN [link |-> link, err |-> "failed to remove current symbolic link"]
    ELSE IF fail = "symlink"
    THEN [link |-> <<>>, err |-> "failed to create new symbolic link"]
    ELSE [link |-> <<versionGoRoot(v)>>, err |-> "nil"]

\* env.fixBrokenLink() on the directories ds and the registry reg
fixBrokenLink(ds, reg, fail) ==
    IF link # <<>> /\ link[1] \in DOMAIN ds
    THEN [link |-> link, err |-> "nil"]
    ELSE IF DOMAIN reg = {} THEN [link |-> link, err |-> "nil"]
    ELSE makeLink(LastInstalled(reg), fail)

\* the URL of an archive: downloadBaseURL + r.Filename
downloadBaseURL == "https://dl.google.com/go/"
ArchiveURL(filename) == <<downloadBaseURL, filename>>

\* getExtractor: by the suffix of the path, ".tar", ".tar.gz" or ".zip"
archive1_16 == "go1.16.linux-amd64.tar.gz"
archive1_16rc1 == "go1.16rc1.linux-amd64.zip"
archive1_14_1 == "go1.14.1.linux-amd64.tar.xz"

getExtractor(path) ==
    IF path \in {archive1_16, archive1_16rc1}
    THEN [e |-> <<path>>, err |-> "nil"]
    ELSE [e |-> <<>>, err |-> "unsupported archive"]

\* the steps of Install, Uninstall and Switch that can fail
InstallFailures ==
    {"none", "mkdirCache", "fetch", "notFound", "status", "createFile", "copy",
     "mkdirRoot", "extract", "removeLink", "symlink"}

UninstallFailures == {"none", "removeAll", "removeLink", "symlink"}

SwitchFailures == {"none", "removeLink", "symlink"}

\* download(url, path) when the step `fail` fails: the exchanges with the
\* server (one http.DefaultClient.Do; the URL followed by the status of the
\* response, "none" when there was no response), the file left at path
\* (<<>> for none) and the error; os.Create comes after the switch on
\* res.StatusCode
downloadRetry(url, fail) ==
    CASE fail = "fetch" ->
           [sent |-> <<url \o <<"none">>>>, file |-> <<>>,
            err |-> "failed to download archive"]
      [] fail = "notFound" ->
           [sent |-> <<url \o <<"404">>, url \o <<"404">>>>, file |-> <<>>,
            err |-> "specified version is not found"]
      [] fail = "status" ->
           [sent |-> <<url \o <<"500">>, url \o <<"500">>>>, file |-> <<>>,
            err |-> "failed to download archive: 500"]
      [] fail = "createFile" ->
           [sent |-> <<url \o <<"200">>>>, file |-> <<>>,
            err |-> "failed to create cache file"]
      [] fail = "copy" ->
           [sent |-> <<url \o <<"200">>>>, file |-> <<"partial">>,
            err |-> "failed to download archive"]
      [] OTHER ->
           [sent |-> <<url \o <<"200">>>>, file |-> <<"complete">>, err |-> "nil"]

download(url, fail) ==
    CASE fail = "fetch" ->
           [sent |-> <<url \o <<"none">>>>, file |-> <<>>,
            err |-> "failed to download archive"]
      [] fail = "notFound" ->
           [sent |-> <<url \o <<"404">>>>, file |-> <<>>,
            err |-> "specified version is not found"]
      [] fail = "status" ->
           [sent |-> <<url \o <<"500">>>>, file |-> <<>>,
            err |-> "failed to download archive: 500"]
      [] fail = "createFile" ->
           [sent |-> <<url \o <<"200">>>>, file |-> <<>>,
            err |-> "failed to create cache file"]
      [] fail = "copy" ->
           [sent |-> <<url \o <<"200">>>>, file |-> <<"partial">>,
            err |-> "failed to download archive"]
      [] OTHER ->
           [sent |-> <<url \o <<"200">>>>, file |-> <<"complete">>, err |-> "nil"]

\* the outcome of a call on the root: error, directories, registry, link,
\* cache directory and its files, the requests sent, and the steps the call
\* performed, in order
Outcome(err, ds, reg, lnk, ars, reqs) ==
    [err |-> err, dirs |-> ds, installedVersions |-> reg, link |-> lnk,
     archives |-> ars, requests |-> reqs, cacheDir |-> cacheDir, steps |-> <<>>]

Failed(err) ==
    Outcome(err, dirs, installedVersions, link, archives, requests)

\* the outcome o of the rest of a call, after the steps ss; a step is a
\* tuple, <<name>> or an exchange with the server
Steps(ss, o) == [o EXCEPT !.steps = ss \o @]

\* the end of Install: e.extract(goRoot), whose error is dropped, and
\* fixBrokenLink; ars is the cache directory after the download
InstallExtract(v, name, ars, reqs, fail, fixed) ==
    Steps(<<<<"extract">>, <<"fixBrokenLink">>>>,
          Outcome(fixed.err, MapSet(dirs, versionGoRoot(v),
                      IF fail = "extract" \/ ars[name] = "partial" THEN "partial"
                      ELSE "complete"),
                  installedVersions, fixed.link, ars, reqs))

\* Install from `if _, err := os.Stat(goRoot)` on that skips this test
InstallOverwrite(v, name, ars, reqs, fail) ==
    IF fail = "mkdirRoot" /\ versionGoRoot(v) \notin DOMAIN dirs
    THEN Outcome("failed to create install target directory",
                 dirs, installedVersions, link, ars, reqs)
    ELSE Steps(<<<<"Mkdir">>>>,
               InstallExtract(v, name, ars, reqs, fail,
                   fixBrokenLink(MapSet(dirs, versionGoRoot(v), "complete"),
                                 installedVersions, fail)))

\* Install from `if _, err := os.Stat(goRoot)` on
InstallTarget(v, name, ars, reqs, fail) ==
    IF versionGoRoot(v) \in DOMAIN dirs
    THEN Outcome("install target directory already exists",
                 dirs, installedVersions, link, ars, reqs)
    ELSE IF fail = "mkdirRoot"
    THEN Outcome("failed to create install target directory",
                 dirs, installedVersions, link, ars, reqs)
    ELSE Steps(<<<<"Mkdir">>>>,
               InstallExtract(v, name, ars, reqs, fail,
                   fixBrokenLink(MapSet(dirs, versionGoRoot(v), "complete"),
                                 installedVersions, fail)))

\* Install from the os.Stat of the cache path on, with a download whenever
\* the cached file is not a complete one
InstallDownloadVerified(v, name, fail, dl) ==
    IF name \in DOMAIN archives /\ archives[name] = "complete"
    THEN Steps(<<<<"cached">>>>, InstallTarget(v, name, archives, requests, fail))
    ELSE IF dl.err # "nil"
    THEN Steps(dl.sent,
               Outcome(dl.err, dirs, installedVersions, link,
                       IF dl.file = <<>> THEN archives
                       ELSE MapSet(archives, name, dl.file[1]),
                       requests \cup {ArchiveURL(name)}))
    ELSE Steps(dl.sent,
               InstallTarget(v, name, MapSet(archives, name, "complete"),
                             requests \cup {ArchiveURL(name)}, fail))

\* Install from the os.Stat of the cache path on: the download when the
\* archive is not in the cache directory
InstallDownload(v, name, fail, dl) ==
    IF name \in DOMAIN archives
    THEN Steps(<<<<"cached">>>>, InstallTarget(v, name, archives, requests, fail))
    ELSE IF dl.err # "nil"
    THEN Steps(dl.sent,
               Outcome(dl.err, dirs, installedVersions, link,
                       IF dl.file = <<>> THEN archives
                       ELSE MapSet(archives, name, dl.file[1]),
                       requests \cup {ArchiveURL(name)}))
    ELSE Steps(dl.sent,
               InstallTarget(v, name, MapSet(archives, name, "complete"),
                             requests \cup {ArchiveURL(name)}, fail))

\* Install after env.downloadURL(v) that creates the cache directory before
\* it asks getExtractor
InstallFoundMkdirFirst(v, found, fail) ==
    IF found.err # "nil" THEN Steps(<<<<"FindRelease">>>>, Failed(found.err))
    ELSE IF fail = "mkdirCache"
    THEN Steps(<<<<"FindRelease">>>>, Failed("failed to create cache directory"))
    ELSE IF getExtractor(found.r[1].Filename).err # "nil"
    THEN [Steps(<<<<"FindRelease">>, <<"MkdirAll">>>>,
                Failed(getExtractor(found.r[1].Filename).err))
            EXCEPT !.cacheDir = TRUE]
    ELSE [Steps(<<<<"FindRelease">>, <<"MkdirAll">>>>,
                InstallDownload(v, found.r[1].Filename, fail,
                    download(ArchiveURL(found.r[1].Filename), fail)))
            EXCEPT !.cacheDir = TRUE]

\* Install after env.downloadURL(v), found being what FindRelease returned:
\* getExtractor, os.MkdirAll(env.cacheDir) and the rest
InstallFound(v, found, fail) ==
    IF found.err # "nil" THEN Steps(<<<<"FindRelease">>>>, Failed(found.err))
    ELSE IF getExtractor(found.r[1].Filename).err # "nil"
    THEN Steps(<<<<"FindRelease">>>>, Failed(getExtractor(found.r[1].Filename).err))
    ELSE IF fail = "mkdirCache"
    THEN Steps(<<<<"FindRelease">>>>, Failed("failed to create cache directory"))
    ELSE [Steps(<<<<"FindRelease">>, <<"MkdirAll">>>>,
                InstallDownload(v, found.r[1].Filename, fail,
                    download(ArchiveURL(found.r[1].Filename), fail)))
            EXCEPT !.cacheDir = TRUE]

\* env.Install(v) when the step `fail` fails
InstallOutcome(v, found, fail) ==
    IF HasVersion(v) THEN Failed("specified version is already installed")
    ELSE InstallFound(v, found, fail)

\* the end of Uninstall: delete(env.installedVersions, ...) and fixBrokenLink
UninstallRemoved(ds, reg, fixed) ==
    Steps(<<<<"RemoveAll">>, <<"delete">>, <<"fixBrokenLink">>>>,
          Outcome(fixed.err, ds, reg, fixed.link, archives, requests))

\* env.Uninstall(v) when the step `fail` fails
UninstallOutcome(v, fail) ==
    IF ~HasVersion(v) THEN Failed("specified version is not installed")
    ELSE IF fail = "removeAll"
    THEN Outcome("failed to remove",
                 IF versionGoRoot(v) \in DOMAIN dirs
                 THEN MapSet(dirs, versionGoRoot(v), "partial") ELSE dirs,
                 installedVersions, link, archives, requests)
    ELSE UninstallRemoved(MapDelete(dirs, versionGoRoot(v)),
                          MapDelete(installedVersions, String(v)),
                          fixBrokenLink(MapDelete(dirs, versionGoRoot(v)),
                                        MapDelete(installedVersions, String(v)),
                                        fail))

\* env.Switch(v) when the step `fail` fails
SwitchOutcome(v, made) ==
    IF HasVersion(v) THEN Failed("specified version is not installed")
    ELSE Steps(<<<<"makeLink">>>>,
               Outcome(made.err, dirs, installedVersions, made.link, archives, requests))

\* the state after a call with the outcome o; an Install that gets as far
\* as FindRelease hands the cache file to convertReleases when
\* env.releases is nil
Apply(op, v, o) ==
    /\ lastOp' = Op(op, o.err,
                    IF op = "Install" /\ ~HasVersion(v) THEN QueryConverted
                    ELSE "none")
    /\ answer' = [arg |-> <<v>>, value |-> o.steps, before |-> <<>>]
    /\ dirs' = o.dirs
    /\ installedVersions' = o.installedVersions
    /\ link' = o.link
    /\ archives' = o.archives
    /\ cacheDir' = o.cacheDir
    /\ requests' = o.requests

\* env.Install(v), one of the steps `fails` failing: FindRelease may load
\* the catalog on the way
InstallCall(v, fails) ==
    /\ \E fail \in fails :
           Apply("Install", v,
                 InstallOutcome(v, FindReleaseIn(AfterLoadIfNil(loadReleases), v), fail))
    /\ releases' = IF HasVersion(v) THEN releases
                   ELSE AfterLoadIfNil(loadReleases).releases
    /\ UNCHANGED <<goos, goarch, remote, cacheFile, parseVars, compareVars>>

Install(v) == InstallCall(v, InstallFailures) /\ UNCHANGED mainVars

\* env.Uninstall(v)
Uninstall(v) ==
    /\ \E fail \in UninstallFailures : Apply("Uninstall", v, UninstallOutcome(v, fail))
    /\ UNCHANGED <<goos, goarch, remote, cacheFile, releases, parseVars, compareVars, mainVars>>

\* env.Switch(v)
Switch(v) ==
    /\ \E fail \in SwitchFailures :
           Apply("Switch", v, SwitchOutcome(v, makeLink(v, fail)))
    /\ UNCHANGED <<goos, goarch, remote, cacheFile, releases, parseVars, compareVars, mainVars>>

----------------------------------------------------------------------------
(* SpecInstall: Install, Uninstall and Switch on one install root          *)

\* the versions the calls are made with, as goenv's ParseVersion returns
\* them; the listing has an archive for each but 1.15.2, and the one of
\* 1.14.1 is of a kind getExtractor does not know
InstallVersions == {v1_14_1, v1_15_2, v1_16rc1, v1_16}

installFile(name) == remoteFile(name, "linux", "amd64", "archive")

InstallListing ==
    << recordOf(v1_16, TRUE, installFile(archive1_16)),
       recordOf(v1_16rc1, FALSE, installFile(archive1_16rc1)),
       recordOf(v1_14_1, TRUE, installFile(archive1_14_1)) >>

\* how many versions the root holds when the program starts
MaxInstalled == 2

\* the roots the program starts on: every directory is the complete
\* directory go<v.String()> of a version, and the link is absent or points
\* at one of them
ConsistentRoots ==
    { [n \in {versionGoRoot(v) : v \in S} |-> "complete"] :
          S \in {T \in SUBSET InstallVersions : Cardinality(T) <= MaxInstalled} }

InitInstall ==
    /\ goos = "linux"
    /\ goarch = "amd64"
    /\ remote = <<>>
    /\ cacheFile \in {NoFile, JsonFile(InstallListing)}
    /\ releases = <<>>
    /\ lastOp = Op("New", "nil", "none")
    /\ requests = {}
    /\ answer = NoAnswer
    /\ dirs \in ConsistentRoots
    /\ installedVersions = ScanRoot(dirs)
    /\ link \in {<<>>} \cup {<<n>> : n \in DOMAIN dirs}
    /\ archives = <<>>
    /\ cacheDir = FALSE
    /\ IdleMain
    /\ IdleParse
    /\ IdleCompare

NextInstall ==
    \/ \E v \in InstallVersions : Install(v)
    \/ \E v \in InstallVersions : Uninstall(v)
    \/ \E v \in InstallVersions : Switch(v)

SpecInstall == InitInstall /\ [][NextInstall]_vars

----------------------------------------------------------------------------
(* SpecMain: one run of the command line, `gosw update` or `gosw install`, *)
(* with an interrupt signal that can arrive while the command is blocked   *)
(* in http.DefaultClient.Do                                                *)

\* the places of the main goroutine where it is blocked in a request
Blocking == {"UpdateDownloadList", "download"}

\* Main after signal.NotifyContext: the update command calls
\* UpdateDownloadList, which sends its request
RunUpdate ==
    /\ pc = "Main"
    /\ pc' = "UpdateDownloadList"
    /\ UNCHANGED <<ctxDone, exitCode, parseVars, compareVars, envVars, goenvVars>>

\* Main after signal.NotifyContext: the install command calls Install(v),
\* which gets as far as the request of download; found is what FindRelease
\* returned
RunInstallFound(v, found) ==
    /\ pc = "Main"
    /\ ~HasVersion(v)
    /\ found.err = "nil"
    /\ getExtractor(found.r[1].Filename).err = "nil"
    /\ found.r[1].Filename \notin DOMAIN archives
    /\ pc' = "download"
    /\ answer' = [arg |-> <<v>>, value |-> <<>>, before |-> <<>>]
    /\ UNCHANGED <<ctxDone, exitCode, parseVars, compareVars, goenvVars,
                   goos, goarch, remote, cacheFile, releases, lastOp, requests>>

RunInstall(v) ==
    RunInstallFound(v, FindReleaseIn(AfterLoadIfNil(loadReleases), v))

\* an interrupt signal arrives while the request is under way:
\* signal.NotifyContext has replaced the default action of the signal by
\* the cancellation of ctx, and no request is made with ctx
Interrupt ==
    /\ pc \in Blocking
    /\ ~ctxDone
    /\ ctxDone' = TRUE
    /\ UNCHANGED <<pc, exitCode, parseVars, compareVars, envVars, goenvVars>>

\* Main after cmd.ExecuteContext(ctx) returned err: os.Exit(1) on an error,
\* the return from Main otherwise
Exit(err) ==
    /\ pc' = "exit"
    /\ exitCode' = <<IF err = "nil" THEN 0 ELSE 1>>
    /\ UNCHANGED ctxDone

\* the request of UpdateDownloadList is over and the command returns
UpdateReturns ==
    /\ pc = "UpdateDownloadList"
    /\ UpdateDownloadListCall
    /\ Exit(lastOp'.err)

\* the request of download is over and the command returns
InstallReturns ==
    /\ pc = "download"
    /\ InstallCall(answer.arg[1], InstallFailures \ {"mkdirCache"})
    /\ Exit(lastOp'.err)

InitMain ==
    /\ goos = "linux"
    /\ goarch = "amd64"
    /\ remote \in FetchListings
    /\ cacheFile \in {NoFile, JsonFile(InstallListing)}
    /\ releases = <<>>
    /\ lastOp = Op("New", "nil", "none")
    /\ requests = {}
    /\ answer = NoAnswer
    /\ dirs \in ConsistentRoots
    /\ installedVersions = ScanRoot(dirs)
    /\ link \in {<<>>} \cup {<<n>> : n \in DOMAIN dirs}
    /\ archives = <<>>
    /\ cacheDir = FALSE
    /\ pc = "Main"
    /\ ctxDone = FALSE
    /\ exitCode = <<>>
    /\ IdleParse
    /\ IdleCompare

NextMain ==
    \/ RunUpdate
    \/ \E v \in InstallVersions : RunInstall(v)
    \/ Interrupt
    \/ UpdateReturns
    \/ InstallReturns

\* a request that is under way comes to an end and the command returns:
\* the step that UpdateReturns and InstallReturns make, from a blocking
\* place to the exit, is taken when it stays possible
Returns == pc \in Blocking /\ pc' = "exit"

SpecMain == InitMain /\ [][NextMain]_vars /\ WF_pc(Returns)

----------------------------------------------------------------------------
(* The claims on the install root                                          *)

\* the versions whose directory go<v.String()> exists among the directories ds
InstalledIn(ds) == {v \in InstallVersions : versionGoRoot(v) \in DOMAIN ds}

\* the greatest of a set of versions by CompareVersion
Greatest(vs) == CHOOSE v \in vs : \A w \in vs : CompareVersion(w, v) <= 0

\* the link resolves to a directory of ds
Resolves(lnk, ds) == lnk # <<>> /\ lnk[1] \in DOMAIN ds

\* C17: after a successful Uninstall(v), a link that still resolves to an
\* existing directory is left untouched; a link whose target is missing is
\* re-created to point at the directory of the greatest remaining installed
\* version when at least one installed version remains.
C17_UninstallRepairsLink ==
    [][ (lastOp'.op = "Uninstall" /\ lastOp'.err = "nil") =>
            /\ Resolves(link, dirs') => link' = link
            /\ (link # <<>> /\ ~Resolves(link, dirs') /\ InstalledIn(dirs') # {}) =>
                   link' = <<versionGoRoot(Greatest(InstalledIn(dirs')))>> ]_vars

\* C18: in every state reachable by Install, Uninstall and Switch calls,
\* successful or failing, from a consistent install root, the link is absent
\* or points at the existing directory of an installed version.
C18_LinkNeverDangles ==
    link = <<>> \/ Resolves(link, dirs)

\* C19: after a successful Install(v) that finds the link missing or
\* dangling, the link points at the directory of the newest installed
\* version, v included; the first install into an empty root leaves the
\* link pointing at v's directory.
C19_InstallRepairsLink ==
    [][ (lastOp'.op = "Install" /\ lastOp'.err = "nil" /\ ~Resolves(link, dirs)) =>
            link' = <<versionGoRoot(Greatest(
                        {installedVersions'[k] : k \in DOMAIN installedVersions'}
                            \cup {answer'.arg[1]}))>> ]_vars

\* C20: Install(v) never writes into an existing install directory: when v
\* is in the registry or the directory go<v.String()> exists, Install
\* returns an error, extracts nothing and leaves the directories, the
\* registry and the link unchanged.
C20_InstallRefusesExisting ==
    [][ (lastOp'.op = "Install"
           /\ (String(answer'.arg[1]) \in DOMAIN installedVersions
                 \/ versionGoRoot(answer'.arg[1]) \in DOMAIN dirs)) =>
            /\ lastOp'.err # "nil"
            /\ dirs' = dirs
            /\ installedVersions' = installedVersions
            /\ link' = link ]_vars

\* Install has refused a directory that an earlier Install of the same run
\* left partial, the version not being in the registry
C20_Witness ==
    /\ lastOp.op = "Install"
    /\ lastOp.err = "install target directory already exists"
    /\ ~HasVersion(answer.arg[1])
    /\ dirs[versionGoRoot(answer.arg[1])] = "partial"

\* Install has refused a version of the registry
C20_WitnessRegistered ==
    /\ lastOp.op = "Install"
    /\ lastOp.err = "specified version is already installed"
    /\ versionGoRoot(answer.arg[1]) \in DOMAIN dirs

----------------------------------------------------------------------------
(* The claims on the archive cache and the download                        *)

\* the artifact filename the catalog gives for v, <<>> when FindRelease
\* would not find v
ListedArchive(v) ==
    IF FindReleaseIn(AfterLoadIfNil(loadReleases), v).err # "nil" THEN <<>>
    ELSE <<FindReleaseIn(AfterLoadIfNil(loadReleases), v).r[1].Filename>>

\* the exchanges with the server among the steps of a call
Exchanges(steps) == SelectSeq(steps, LAMBDA e : Len(e) = 3)

\* the step named name is among the steps of a call
Did(steps, name) == \E i \in 1..Len(steps) : steps[i] = <<name>>

\* C21: when a file with the selected release's artifact filename already
\* exists in the archive cache directory, Install performs no download and
\* extracts from that file; the file is not checked, so a file left
\* truncated by an earlier failed download is reused by every later Install
\* of that version as long as it is there.
C21_CachedArchiveReused ==
    [][ (lastOp'.op = "Install"
           /\ ListedArchive(answer'.arg[1]) # <<>>
           /\ ListedArchive(answer'.arg[1])[1] \in DOMAIN archives) =>
            /\ Exchanges(answer'.value) = <<>>
            /\ requests' = requests
            /\ archives' = archives
            /\ Did(answer'.value, "MkdirAll") => Did(answer'.value, "cached")
            /\ (Did(answer'.value, "extract")
                  /\ archives[ListedArchive(answer'.arg[1])[1]] = "partial") =>
                   dirs'[versionGoRoot(answer'.arg[1])] = "partial" ]_vars

\* Install has returned nil after extracting from a truncated file of the
\* cache directory
C21_Witness ==
    /\ lastOp.op = "Install"
    /\ lastOp.err = "nil"
    /\ Did(answer.value, "cached")
    /\ Did(answer.value, "extract")
    /\ archives[ListedArchive(answer.arg[1])[1]] = "partial"
    /\ dirs[versionGoRoot(answer.arg[1])] = "partial"

\* C22: an archive download that receives status 404 fails with the error
\* "specified version is not found", and one that receives another non-200
\* status fails with an error carrying the status; in both cases no cache
\* file and no install directory is created, the registry and the link are
\* unchanged, and the request is sent once.
C22_DownloadStatus ==
    [][ \A i \in 1..Len(answer'.value) :
          (lastOp'.op = "Install"
             /\ Len(answer'.value[i]) = 3
             /\ answer'.value[i][3] \in {"404", "500"}) =>
              /\ lastOp'.err = IF answer'.value[i][3] = "404"
                               THEN "specified version is not found"
                               ELSE "failed to download archive: 500"
              /\ archives' = archives
              /\ dirs' = dirs
              /\ installedVersions' = installedVersions
              /\ link' = link
              /\ Len(Exchanges(answer'.value)) = 1 ]_vars

\* a download of Install has received status 404
C22_Witness ==
    /\ lastOp.op = "Install"
    /\ lastOp.err = "specified version is not found"
    /\ Len(Exchanges(answer.value)) = 1
    /\ Exchanges(answer.value) = <<ArchiveURL(ListedArchive(answer.arg[1])[1]) \o <<"404">>>>
    /\ cacheDir
    /\ ListedArchive(answer.arg[1])[1] \notin DOMAIN archives

\* a download of Install has received another status than 200 and 404
C22_WitnessStatus ==
    /\ lastOp.op = "Install"
    /\ lastOp.err = "failed to download archive: 500"
    /\ Exchanges(answer.value) = <<ArchiveURL(ListedArchive(answer.arg[1])[1]) \o <<"500">>>>
    /\ versionGoRoot(answer.arg[1]) \notin DOMAIN dirs

----------------------------------------------------------------------------
(* The claim on the interrupt signal                                       *)

\* C23: whenever an interrupt signal is delivered while a blocking
\* operation is in progress (the listing fetch of UpdateDownloadList or the
\* archive download of Install), the process eventually exits with a
\* non-zero exit code, the command not having completed.
C23_InterruptAborts ==
    (pc \in Blocking /\ ctxDone) ~>
        (exitCode # <<>> /\ exitCode[1] # 0 /\ lastOp.err # "nil")

----------------------------------------------------------------------------
(* Further claims about ParseVersion, under SpecParse                      *)

\* C24: every Version returned by ParseVersion has exactly one active
\* trailing number: a Stable version has Release = 0, a Beta or RC version
\* has Patch = 0, and Head has Major = Minor = Patch = Release = 0; Major is
\* 1 for every version that is not Head.
C24_OneTrailingNumber ==
    (parsed # <<>> /\ parsed[1].err = "nil") =>
        /\ parsed[1].v[1].Type = Stable => parsed[1].v[1].Release = 0
        /\ parsed[1].v[1].Type \in {Beta, RC} => parsed[1].v[1].Patch = 0
        /\ parsed[1].v[1].Type = TypeHead =>
               parsed[1].v[1] = Version(TypeHead, 0, 0, 0, 0)
        /\ parsed[1].v[1].Type # TypeHead => parsed[1].v[1].Major = 1

\* C25: the leading "go" is optional: for every text s that ParseVersion
\* accepts, ParseVersion("go" + s) succeeds and returns a Version equal to
\* ParseVersion(s) in every field, and for every text s that ParseVersion
\* rejects, ParseVersion("go" + s) is rejected too.
C25_GoPrefixOptional ==
    parsed # <<>> =>
        /\ parsed[1].err = "nil" => ParseVersion(goPrefix \o text) = parsed[1]
        /\ parsed[1].err # "nil" => ParseVersion(goPrefix \o text).err # "nil"

----------------------------------------------------------------------------
(* Further claims on the install root, under SpecInstall                   *)

\* the registry reg holds exactly the versions that have a directory in ds
Tracks(reg, ds) ==
    \A v \in InstallVersions : String(v) \in DOMAIN reg <=> versionGoRoot(v) \in DOMAIN ds

\* C26: the registry tracks the install root through every operation: a
\* successful Install(v) inserts v, a successful Uninstall(v) removes v, and
\* after a successful Install or Uninstall on a root the registry tracked,
\* HasVersion(v) is true exactly for the versions whose directory
\* go<v.String()> exists.
C26_RegistryTracksRoot ==
    [][ (lastOp'.op \in {"Install", "Uninstall"} /\ lastOp'.err = "nil") =>
            /\ lastOp'.op = "Install" =>
                   String(answer'.arg[1]) \in DOMAIN installedVersions'
            /\ lastOp'.op = "Uninstall" =>
                   String(answer'.arg[1]) \notin DOMAIN installedVersions'
            /\ Tracks(installedVersions, dirs) =>
                   Tracks(installedVersions', dirs') ]_vars

\* C27: Switch(v) succeeds exactly when v is an installed version, and then
\* the link points at v's directory; when v is not installed, Switch returns
\* "specified version is not installed" and leaves the link unchanged.
C27_SwitchInstalledOnly ==
    [][ lastOp'.op = "Switch" =>
            /\ lastOp'.err = "nil" =>
                   /\ String(answer'.arg[1]) \in DOMAIN installedVersions
                   /\ link' = <<versionGoRoot(answer'.arg[1])>>
            /\ String(answer'.arg[1]) \notin DOMAIN installedVersions =>
                   /\ lastOp'.err = "specified version is not installed"
                   /\ link' = link ]_vars

\* C28: an extraction failure during Install is surfaced: whenever
\* extracting the archive into the new install directory fails, Install
\* returns a non-nil error and does not go on to repair the link.
C28_ExtractFailureSurfaced ==
    [][ (lastOp'.op = "Install"
           /\ Did(answer'.value, "extract")
           /\ dirs'[versionGoRoot(answer'.arg[1])] = "partial") =>
            /\ lastOp'.err # "nil"
            /\ ~Did(answer'.value, "fixBrokenLink")
            /\ link' = link ]_vars

\* Install(v) has to refuse before it acts: v is in the registry, or
\* FindRelease does not return a release for v (v is not in the catalog, or
\* there is no cache file to load the catalog from), or the artifact
\* filename of the release has no suffix getExtractor knows
MustRefuse(v) ==
    \/ HasVersion(v)
    \/ ListedArchive(v) = <<>>
    \/ getExtractor(ListedArchive(v)[1]).err # "nil"

\* C29: Install validates before it acts: when the requested version is
\* already installed, is absent from the catalog, the catalog cache is
\* missing, or the artifact filename has an unsupported suffix, Install
\* returns an error having created no cache directory, performed no
\* download and created no install directory; the steps of a successful
\* Install occur in the order catalog lookup, download or cache hit,
\* install-directory creation, extraction, link repair.
C29_ValidatesBeforeActing ==
    [][ lastOp'.op = "Install" =>
            /\ MustRefuse(answer'.arg[1]) =>
                   /\ lastOp'.err # "nil"
                   /\ cacheDir' = cacheDir
                   /\ ~Did(answer'.value, "MkdirAll")
                   /\ Exchanges(answer'.value) = <<>>
                   /\ requests' = requests
                   /\ archives' = archives
                   /\ dirs' = dirs
            /\ lastOp'.err = "nil" =>
                   /\ Len(answer'.value) = 6
                   /\ answer'.value[1] = <<"FindRelease">>
                   /\ answer'.value[2] = <<"MkdirAll">>
                   /\ \/ answer'.value[3] = <<"cached">>
                      \/ answer'.value[3] =
                             ArchiveURL(ListedArchive(answer'.arg[1])[1]) \o <<"200">>
                   /\ answer'.value[4] = <<"Mkdir">>
                   /\ answer'.value[5] = <<"extract">>
                   /\ answer'.value[6] = <<"fixBrokenLink">> ]_vars

\* Install has refused an archive of a kind getExtractor does not know, and
\* there is no cache directory
C29_Witness ==
    /\ lastOp.op = "Install"
    /\ lastOp.err = "unsupported archive"
    /\ answer.arg = <<v1_14_1>>
    /\ ~cacheDir
    /\ archives = <<>>

\* Install has succeeded after a download
C29_WitnessOrder ==
    /\ lastOp.op = "Install"
    /\ lastOp.err = "nil"
    /\ Len(Exchanges(answer.value)) = 1
    /\ dirs[versionGoRoot(answer.arg[1])] = "complete"

----------------------------------------------------------------------------
(* The claim on the catalog and its cache file, under Spec                 *)

\* C30: the in-memory catalog and the cache file never diverge: whenever
\* UpdateDownloadList has returned, with success or with an error at any
\* step, a loaded in-memory catalog equals the catalog that converting the
\* content of the cache file produces.
C30_CatalogMatchesCacheFile ==
    (lastOp.op = "UpdateDownloadList" /\ releases # <<>>) =>
        loadReleases = [releases |-> releases, err |-> "nil"]

====
